---- MODULE Spec2Model ----
(***************************************************************************)
(* The Excel template population engine of the estimation backend          *)
(* (backend/data scripts/populate_estimates.py): header normalisation and  *)
(* discovery, row flattening, value sanitising, formula-preserving row     *)
(* insertion, and the command-line run around them.                        *)
(*                                                                         *)
(* Text is a sequence of one-character strings.  Characters that cannot be *)
(* written as ASCII are the tokens "EN" (U+2013), "EM" (U+2014),           *)
(* "E_ACUTE" / "e_acute" (U+00C9 / U+00E9), "SIGMA" / "sigma" /            *)
(* "final_sigma" (U+03A3 / U+03C3 / U+03C2) and "NUL", "BEL", "DEL"        *)
(* (U+0000, U+0007, U+007F).                                               *)
(***************************************************************************)
EXTENDS Integers, Sequences, FiniteSets, TLC

(***************************************************************************)
(* The run: main (lines 345-402) and the __main__ block (lines 404-409).   *)
(*   inbook_exists   whether the template file exists                      *)
(*   inbook          the template file as load_workbook read it            *)
(*   data            the payload as json.load parsed it                    *)
(*   ws              the 'Estimation' sheet in memory                      *)
(*   saved           whether wb.save has written the output workbook       *)
(*   stdout          the lines printed                                     *)
(*   error           the exception main ended with, "none" if none         *)
(* and the locals of write_rows_to_estimation (header_row, col_map,        *)
(* start_row, last_filled, current_row, i).                                *)
(*                                                                         *)
(* A header cell's text on its own, for norm and locate_columns:           *)
(*   text            the text of the cell                                  *)
(*   canon           the entry of HEADER_TO_JSON the text is a spelling    *)
(*                   of, 0 when it is free text                            *)
(*   edits           the number of respellings made                        *)
(*                                                                         *)
(* A value on its own, for safe_excel_value and safe_numeric_convert:      *)
(*   given           the value built so far, the next argument             *)
(*   call            the last call made: its function, argument and        *)
(*                   outcome                                               *)
(*                                                                         *)
(* Two rows of an envelope, for _compute_row_id (services/importer.py):    *)
(*   row_a, row_b    the rows; row_b is respelt from row_a                 *)
(*   row_ids         the ids last computed for the two rows                *)
(*                                                                         *)
(* The HTTP layer's Excel generations (services/excel.py, routes/tools.py):*)
(*   requests        per request, where its coroutine stands and the       *)
(*                   temporary directory and --outbook path it holds       *)
(*   now             the wall clock, in seconds                            *)
(***************************************************************************)
VARIABLES pc, inbook_exists, inbook, data, ws, header_row, col_map, start_row,
          last_filled, current_row, i, saved, stdout, error,
          text, canon, edits,
          given, call,
          row_a, row_b, row_ids,
          requests, now, response,
          estimation, tasks, upload

runVars == <<pc, inbook_exists, inbook, data, ws, header_row, col_map, start_row,
             last_filled, current_row, i, saved, stdout, error>>
textVars == <<text, canon, edits>>
valueVars == <<given, call>>
rowIdVars == <<row_a, row_b, row_ids>>
estimationVars == <<estimation, tasks, upload>>
serveVars == <<requests, now, response, estimationVars>>
vars == <<runVars, textVars, valueVars, rowIdVars, serveVars>>

(***************************************************************************)
(* Characters and the regular-expression classes of norm.                  *)
(***************************************************************************)
UpperChars == <<"A","B","C","D","E","F","G","H","I","J","K","L","M","N","O","P","Q","R","S","T","U","V","W","X","Y","Z","E_ACUTE","SIGMA">>
LowerChars == <<"a","b","c","d","e","f","g","h","i","j","k","l","m","n","o","p","q","r","s","t","u","v","w","x","y","z","e_acute","sigma">>
DigitChars == <<"0","1","2","3","4","5","6","7","8","9">>

Range(f) == {f[ix] : ix \in DOMAIN f}

\* the one element of a singleton set; a value bound over {e} is computed once
The(S) == CHOOSE x \in S : TRUE

\* str.isspace() / the class \s of re
IsSpace(c) == c \in {" ", "\n", "\t", "\r"}

\* the class [–—\-] of line 17
IsDash(c) == c \in {"-", "EN", "EM"}

\* the class [a-z0-9#/\.\-\s()] of line 18
AllowedChars ==
    {LowerChars[ix] : ix \in 1..26} \cup Range(DigitChars) \cup {"#", "/", ".", "-", "(", ")"}
    \cup {" ", "\n", "\t", "\r"}
IsAllowed(c) == c \in AllowedChars

\* str.lower() on one character
ToLower == [c \in Range(UpperChars) |-> LowerChars[CHOOSE ix \in DOMAIN UpperChars : UpperChars[ix] = c]]
LowerChar(c) == IF c \in DOMAIN ToLower THEN ToLower[c] ELSE c

\* the sequence f written out element by element
Seq_(f) == SubSeq(f, 1, Len(f))

\* the characters str.lower() looks at around a capital sigma
IsCased(c) == c \in Range(UpperChars) \cup Range(LowerChars) \cup {"final_sigma"}
IsCaseIgnorable(c) == c \in {".", "'", ":"}

\* whether the capital sigma at s[n] ends a word: a cased character before
\* it and none after it, case-ignorable characters skipped
FinalSigma(s, n) ==
    /\ \E j \in 1..(n - 1) : IsCased(s[j]) /\ \A k \in (j + 1)..(n - 1) : IsCaseIgnorable(s[k])
    /\ ~\E j \in (n + 1)..Len(s) : IsCased(s[j]) /\ \A k \in (n + 1)..(j - 1) : IsCaseIgnorable(s[k])

\* str.lower()
Lower(s) ==
    Seq_([ix \in 1..Len(s) |->
            IF s[ix] = "SIGMA" /\ FinalSigma(s, ix) THEN "final_sigma" ELSE LowerChar(s[ix])])

\* str.strip(): drop leading and trailing whitespace
Strip(s) ==
    IF s = <<>> \/ (~IsSpace(s[1]) /\ ~IsSpace(s[Len(s)])) THEN s
    ELSE IF \A ix \in 1..Len(s) : IsSpace(s[ix]) THEN <<>>
    ELSE LET lo == CHOOSE ix \in 1..Len(s) : ~IsSpace(s[ix]) /\ \A j \in 1..(ix - 1) : IsSpace(s[j])
             hi == CHOOSE ix \in 1..Len(s) : ~IsSpace(s[ix]) /\ \A j \in (ix + 1)..Len(s) : IsSpace(s[j])
         IN  SubSeq(s, lo, hi)

\* s.replace("\n", " ")
ReplaceNewlines(s) == Seq_([ix \in 1..Len(s) |-> IF s[ix] = "\n" THEN " " ELSE s[ix]])

\* the positions of s that start a maximal run of characters of a class, or
\* lie outside the class (InClass[i] says whether s[i] is in it)
RunStarts(InClass) ==
    SelectSeq(Seq_([ix \in DOMAIN InClass |-> ix]),
              LAMBDA ix : ~InClass[ix] \/ ix = 1 \/ ~InClass[ix-1])

\* re.sub(r"[–—\-]+", "-", s): every maximal run of dashes becomes one "-"
CollapseDashes(s) ==
    LET keep == RunStarts(Seq_([ix \in 1..Len(s) |-> IsDash(s[ix])]))
    IN  Seq_([j \in 1..Len(keep) |-> IF IsDash(s[keep[j]]) THEN "-" ELSE s[keep[j]]])

\* re.sub(r"[^a-z0-9#/\.\-\s()]+", "", s): characters outside the class are deleted
RemoveDisallowed(s) == SelectSeq(s, IsAllowed)

\* a norm that keeps whitespace runs as they are
KeepSpaces(s) == s

\* re.sub(r"\s+", " ", s): every maximal run of whitespace becomes one " "
CollapseSpaces(s) ==
    LET keep == RunStarts(Seq_([ix \in 1..Len(s) |-> IsSpace(s[ix])]))
    IN  Seq_([j \in 1..Len(keep) |-> IF IsSpace(s[keep[j]]) THEN " " ELSE s[keep[j]]])

\* norm (lines 14-20): strip and lower first, then the three substitutions;
\* nothing trims the text again after the disallowed characters are deleted.
norm(s) == CollapseSpaces(RemoveDisallowed(CollapseDashes(ReplaceNewlines(Lower(Strip(s))))))

(***************************************************************************)
(* The fixed header dictionary (lines 22-40), in insertion order.          *)
(***************************************************************************)
HeaderTexts == <<
    <<<<"P","l","a","t","f","o","r","m"," ","(","D","e","s","k","t","o","p"," ","/"," ","W","e","b"," ","/"," ","M","o","b","i","l","e",")">>,
      "platform">>,
    <<<<"M","o","d","u","l","e">>,
      "module">>,
    <<<<"C","o","m","p","o","n","e","n","t">>,
      "component">>,
    <<<<"F","e","a","t","u","r","e","s">>,
      "feature">>,
    <<<<"M","a","k","e","/"," ","R","e","u","s","e">>,
      "make_or_reuse">>,
    <<<<"C","o","m","p","l","e","x","i","t","y"," ","(","S","i","m","p","l","e"," ","/"," ","C","o","m","p","l","e","x"," ","/"," ","A","v","e","r","a","g","e",")">>,
      "complexity">>,
    <<<<"P","r","o","j","e","c","t"," ","N","a","m","e">>,
      "previous_project_actual.project_name">>,
    <<<<"A","c","t","u","a","l"," ","(","w","o","r","k","i","n","g"," ","d","a","y",")">>,
      "previous_project_actual.actual_working_days">>,
    <<<<"U","I"," ","D","e","s","i","g","n">>,
      "hours.ui_design">>,
    <<<<"U","I"," ","M","o","d","u","l","e">>,
      "hours.ui_module">>,
    <<<<"B","L">>,
      "hours.backend_logic">>,
    <<<<"G","e","n","e","r","a","l">>,
      "hours.general">>,
    <<<<"S","e","r","v","i","c","e","/"," ","A","P","I">>,
      "hours.service_api">>,
    <<<<"D","B"," ","S","t","r","u","c","t",".">>,
      "hours.db_structure">>,
    <<<<"D","B"," ","P","r","o","g",".">>,
      "hours.db_programming">>,
    <<<<"D","B"," ","-"," ","U","D","F">>,
      "hours.db_udf">>,
    <<<<"#"," ","C","o","m","p",".">>,
      "num_components">>
>>

\* HEADER_TO_JSON: <<normalised header text, field key>> in insertion order
HEADER_TO_JSON == [ix \in 1..Len(HeaderTexts) |-> <<norm(HeaderTexts[ix][1]), HeaderTexts[ix][2]>>]

JSON_NUMERIC_KEYS == {
    "hours.ui_design", "hours.ui_module", "hours.backend_logic", "hours.general",
    "hours.service_api", "hours.db_structure", "hours.db_programming", "hours.db_udf",
    "previous_project_actual.actual_working_days", "num_components"}

(***************************************************************************)
(* Values: what json.load produces and what a cell holds.                  *)
(*   VNone                       None                                      *)
(*   VBool(b)                    bool                                      *)
(*   VInt(n)                     int that converts to a finite float       *)
(*   VHugeInt                    int beyond the float range (float(v)      *)
(*                               raises OverflowError)                     *)
(*   VFloat(t)                   finite float t/10 (one decimal digit is   *)
(*                               the precision of the model's floats)      *)
(*   VNaN, VInf, VNegInf         the non-finite floats                     *)
(*   VStr(s)                     str, s a sequence of characters           *)
(*   VList(l)                    list, l a sequence of values              *)
(*   VDict(d)                    dict, d a sequence of <<key, value>> in   *)
(*                               insertion order, keys distinct            *)
(*   VObject(str_ok, repr_ok)    an object of any other type: whether its  *)
(*                               __str__ and its __repr__ return           *)
(***************************************************************************)
VNone == [none |-> TRUE]
VBool(b) == [bool |-> b]
VInt(n) == [int |-> n]
VHugeInt == [hugeint |-> TRUE]
VFloat(t) == [float |-> t]
VNaN == [nonfinite |-> "nan"]
VInf == [nonfinite |-> "inf"]
VNegInf == [nonfinite |-> "-inf"]
VStr(s) == [str |-> s]
VList(l) == [list |-> l]
VDict(d) == [dict |-> d]
VObject(str_ok, repr_ok) == [object |-> [str_ok |-> str_ok, repr_ok |-> repr_ok]]

IsNone(v) == "none" \in DOMAIN v
IsBool(v) == "bool" \in DOMAIN v
IsInt(v) == "int" \in DOMAIN v \/ "hugeint" \in DOMAIN v
IsFloat(v) == "float" \in DOMAIN v \/ "nonfinite" \in DOMAIN v
IsNonFinite(v) == "nonfinite" \in DOMAIN v
IsStr(v) == "str" \in DOMAIN v
IsList(v) == "list" \in DOMAIN v
IsDict(v) == "dict" \in DOMAIN v
IsObject(v) == "object" \in DOMAIN v

\* what an operation that raised leaves in place of its result
Raised(what) == [raised |-> what]
IsRaised(v) == "raised" \in DOMAIN v

\* k in d, d.get(k, default) on a dict value
HasKey(v, k) == \E ix \in DOMAIN v.dict : v.dict[ix][1] = k
GetKey(v, k, default) ==
    IF HasKey(v, k)
    THEN v.dict[CHOOSE ix \in DOMAIN v.dict : v.dict[ix][1] = k][2]
    ELSE default

\* cell_value not in (None, "")
IsEmptyValue(v) == IsNone(v) \/ v = VStr(<<>>)

(***************************************************************************)
(* Text of values: str(), json.dumps(), float().                           *)
(***************************************************************************)
RECURSIVE NatText(_)
NatText(n) == IF n < 10 THEN <<DigitChars[n + 1]>> ELSE NatText(n \div 10) \o <<DigitChars[(n % 10) + 1]>>

\* str(int)
IntText(n) == IF n < 0 THEN <<"-">> \o NatText(-n) ELSE NatText(n)

\* repr(float) of t/10
FloatText(t) ==
    LET a == IF t < 0 THEN -t ELSE t
    IN  (IF t < 0 THEN <<"-">> ELSE <<>>) \o NatText(a \div 10) \o <<".">> \o NatText(a % 10)

\* str(10**400): the digits of the int that is beyond the float range
HugeIntText == <<"1">> \o [n \in 1..400 |-> "0"]

\* repr of a float that is not finite
NonFiniteText(v) ==
    IF v = VNaN THEN <<"n","a","n">> ELSE IF v = VInf THEN <<"i","n","f">> ELSE <<"-","i","n","f">>

\* the keys of the payloads as text, for json.dumps of a dict
KeyText(k) ==
    CASE k = "project" -> <<"p","r","o","j","e","c","t">>
      [] k = "rows" -> <<"r","o","w","s">>
      [] k = "module" -> <<"m","o","d","u","l","e">>
      [] k = "feature" -> <<"f","e","a","t","u","r","e">>
      [] k = "platform" -> <<"p","l","a","t","f","o","r","m">>
      [] k = "make_or_reuse" -> <<"m","a","k","e","_","o","r","_","r","e","u","s","e">>
      [] k = "hours" -> <<"h","o","u","r","s">>
      [] k = "backend_logic" -> <<"b","a","c","k","e","n","d","_","l","o","g","i","c">>
      [] k = "db_udf" -> <<"d","b","_","u","d","f">>

\* a string inside json.dumps(..., ensure_ascii=False): quoted, with " and \
\* escaped and the characters below U+0020 written as escapes; U+007F and
\* the characters beyond ASCII stay as they are
JsonString(s) ==
    LET f[ix \in 0..Len(s)] ==
            IF ix = 0 THEN <<>>
            ELSE IF s[ix] \in {"\"", "\\"} THEN f[ix-1] \o <<"\\", s[ix]>>
            ELSE IF s[ix] = "\n" THEN f[ix-1] \o <<"\\", "n">>
            ELSE IF s[ix] = "\t" THEN f[ix-1] \o <<"\\", "t">>
            ELSE IF s[ix] = "NUL" THEN f[ix-1] \o <<"\\", "u", "0", "0", "0", "0">>
            ELSE IF s[ix] = "BEL" THEN f[ix-1] \o <<"\\", "u", "0", "0", "0", "7">>
            ELSE Append(f[ix-1], s[ix])
    IN  IF \A ix \in DOMAIN s : s[ix] \notin {"\"", "\\", "\n", "\t", "NUL", "BEL"}
        THEN <<"\"">> \o s \o <<"\"">>
        ELSE <<"\"">> \o f[Len(s)] \o <<"\"">>

\* json.dumps(value, ensure_ascii=False) with the default separators ", " and ": "
RECURSIVE JsonDumps(_)
JsonDumps(v) ==
    CASE IsNone(v) -> <<"n","u","l","l">>
      [] IsBool(v) -> IF v.bool THEN <<"t","r","u","e">> ELSE <<"f","a","l","s","e">>
      [] "int" \in DOMAIN v -> IntText(v.int)
      [] "hugeint" \in DOMAIN v -> HugeIntText
      [] "float" \in DOMAIN v -> FloatText(v.float)
      [] IsNonFinite(v) ->
            IF v = VNaN THEN <<"N","a","N">>
            ELSE IF v = VInf THEN <<"I","n","f","i","n","i","t","y">>
            ELSE <<"-","I","n","f","i","n","i","t","y">>
      [] IsStr(v) -> JsonString(v.str)
      [] IsList(v) ->
            LET l == v.list
                f[ix \in 0..Len(l)] ==
                    IF ix = 0 THEN <<>>
                    ELSE f[ix-1] \o (IF ix > 1 THEN <<",", " ">> ELSE <<>>) \o JsonDumps(l[ix])
            IN  <<"[">> \o f[Len(l)] \o <<"]">>
      [] IsDict(v) ->
            LET d == v.dict
                f[ix \in 0..Len(d)] ==
                    IF ix = 0 THEN <<>>
                    ELSE f[ix-1] \o (IF ix > 1 THEN <<",", " ">> ELSE <<>>)
                         \o JsonString(KeyText(d[ix][1])) \o <<":", " ">> \o JsonDumps(d[ix][2])
            IN  <<"{">> \o f[Len(d)] \o <<"}">>

\* json.dumps raises TypeError: an object of another type is somewhere in v
RECURSIVE JsonFails(_)
JsonFails(v) ==
    \/ IsObject(v)
    \/ IsList(v) /\ \E ix \in DOMAIN v.list : JsonFails(v.list[ix])
    \/ IsDict(v) /\ \E ix \in DOMAIN v.dict : JsonFails(v.dict[ix][2])

\* repr(value) raises: the __repr__ of an object somewhere in v raises
RECURSIVE ReprFails(_)
ReprFails(v) ==
    \/ IsObject(v) /\ ~v.object.repr_ok
    \/ IsList(v) /\ \E ix \in DOMAIN v.list : ReprFails(v.list[ix])
    \/ IsDict(v) /\ \E ix \in DOMAIN v.dict : ReprFails(v.dict[ix][2])

\* what str() and repr() of an object return when they return
ObjectText == <<"<","o","b","j","e","c","t",">">>

\* repr(str): in single quotes, or in double quotes when the text holds a
\* single quote and no double quote; the quote, \ and the characters that
\* do not print are written as escapes
StrRepr(s) ==
    LET q == IF (\E ix \in DOMAIN s : s[ix] = "'") /\ ~(\E ix \in DOMAIN s : s[ix] = "\"") THEN "\"" ELSE "'"
        f[ix \in 0..Len(s)] ==
            IF ix = 0 THEN <<>>
            ELSE IF s[ix] \in {q, "\\"} THEN f[ix-1] \o <<"\\", s[ix]>>
            ELSE IF s[ix] = "\n" THEN f[ix-1] \o <<"\\", "n">>
            ELSE IF s[ix] = "\t" THEN f[ix-1] \o <<"\\", "t">>
            ELSE IF s[ix] = "NUL" THEN f[ix-1] \o <<"\\", "x", "0", "0">>
            ELSE IF s[ix] = "BEL" THEN f[ix-1] \o <<"\\", "x", "0", "7">>
            ELSE IF s[ix] = "DEL" THEN f[ix-1] \o <<"\\", "x", "7", "f">>
            ELSE Append(f[ix-1], s[ix])
    IN  IF \A ix \in DOMAIN s : s[ix] \notin {q, "\\", "\n", "\t", "NUL", "BEL", "DEL"}
        THEN <<q>> \o s \o <<q>>
        ELSE <<q>> \o f[Len(s)] \o <<q>>

\* repr(value), which str() of a list or a dict is made of
RECURSIVE PyRepr(_)
PyRepr(v) ==
    CASE IsNone(v) -> <<"N","o","n","e">>
      [] IsBool(v) -> IF v.bool THEN <<"T","r","u","e">> ELSE <<"F","a","l","s","e">>
      [] "int" \in DOMAIN v -> IntText(v.int)
      [] "hugeint" \in DOMAIN v -> HugeIntText
      [] "float" \in DOMAIN v -> FloatText(v.float)
      [] IsNonFinite(v) -> NonFiniteText(v)
      [] IsStr(v) -> StrRepr(v.str)
      [] IsObject(v) -> ObjectText
      [] IsList(v) ->
            LET l == v.list
                f[ix \in 0..Len(l)] ==
                    IF ix = 0 THEN <<>>
                    ELSE f[ix-1] \o (IF ix > 1 THEN <<",", " ">> ELSE <<>>) \o PyRepr(l[ix])
            IN  <<"[">> \o f[Len(l)] \o <<"]">>
      [] IsDict(v) ->
            LET d == v.dict
                f[ix \in 0..Len(d)] ==
                    IF ix = 0 THEN <<>>
                    ELSE f[ix-1] \o (IF ix > 1 THEN <<",", " ">> ELSE <<>>)
                         \o StrRepr(KeyText(d[ix][1])) \o <<":", " ">> \o PyRepr(d[ix][2])
            IN  <<"{">> \o f[Len(d)] \o <<"}">>

\* str(value) when it returns: the text itself for a str, repr otherwise
StrOf(v) == IF IsStr(v) THEN v.str ELSE PyRepr(v)

IsDigit(c) == c \in Range(DigitChars)
DigitVal(c) == (CHOOSE ix \in DOMAIN DigitChars : DigitChars[ix] = c) - 1

RECURSIVE NatOf(_)
NatOf(s) == IF s = <<>> THEN 0 ELSE 10 * NatOf(SubSeq(s, 1, Len(s) - 1)) + DigitVal(s[Len(s)])

\* float(text) for a stripped text without its sign: digits with an optional
\* fraction, or one of the names nan, inf, infinity; anything else is a ValueError.
ParseUnsigned(body, neg) ==
    LET \* the names have at most 8 characters
        word == IF Len(body) <= 8 THEN Lower(body) ELSE <<>>
        digits(dots) ==
            LET ip == IF dots = {} THEN body ELSE SubSeq(body, 1, (CHOOSE ix \in dots : TRUE) - 1)
                fp == IF dots = {} THEN <<>> ELSE SubSeq(body, (CHOOSE ix \in dots : TRUE) + 1, Len(body))
                mag == 10 * NatOf(ip) + (IF fp = <<>> THEN 0 ELSE DigitVal(fp[1]))
            IN  IF /\ Cardinality(dots) <= 1
                   /\ Len(body) - Cardinality(dots) >= 1
                   /\ \A ix \in 1..Len(body) : ix \in dots \/ IsDigit(body[ix])
                THEN VFloat(IF neg THEN -mag ELSE mag)
                ELSE Raised("ValueError")
    IN  IF word = <<"n","a","n">> THEN VNaN
        ELSE IF word \in {<<"i","n","f">>, <<"i","n","f","i","n","i","t","y">>}
             THEN (IF neg THEN VNegInf ELSE VInf)
        ELSE The({digits(dots) : dots \in {{ix \in 1..Len(body) : body[ix] = "."}}})

\* float(text) for a stripped text: an optional sign, then the rest
ParseFloat(s) ==
    LET signed == s # <<>> /\ s[1] \in {"+", "-"}
    IN  The({ParseUnsigned(body, signed /\ s[1] = "-") : body \in {IF signed THEN Tail(s) ELSE s}})

(***************************************************************************)
(* safe_excel_value (lines 48-94)                                          *)
(***************************************************************************)
MAX_CELL_CHARS == 32767

\* the class [\x01-\x08\x0B\x0C\x0E-\x1F\x7F-\x9F] of line 65, and NUL of line 64
IsControl(c) == c \in {"NUL", "BEL", "DEL"}

SanitizeString(s) ==
    LET t == SelectSeq(s, LAMBDA c : ~IsControl(c))
    IN  VStr(IF Len(t) > MAX_CELL_CHARS THEN SubSeq(t, 1, MAX_CELL_CHARS) ELSE t)

\* " | ".join(l) for a list of strings
JoinBar(l) ==
    LET f[ix \in 0..Len(l)] ==
            IF ix = 0 THEN <<>>
            ELSE f[ix-1] \o (IF ix > 1 THEN <<" ", "|", " ">> ELSE <<>>) \o l[ix].str
    IN  f[Len(l)]

\* a sanitiser without the branch for lists of strings: every list is
\* serialized
JsonForEveryList(value) ==
    CASE IsList(value) \/ IsDict(value) ->
            IF JsonFails(value) THEN VStr(<<>>) ELSE SanitizeString(JsonDumps(value))
      [] IsStr(value) -> SanitizeString(value.str)
      [] IsNonFinite(value) -> VNone
      [] OTHER -> value

\* lines 79-80 and 86-87: json.dumps raised, so str(value) is returned as it
\* is; this runs inside the except clause, where nothing catches what the
\* __repr__ of an element raises
StrFallback(value) ==
    IF ReprFails(value) THEN Raised("exception in __repr__") ELSE VStr(PyRepr(value))

safe_excel_value(value) ==
    CASE IsNone(value) -> VNone
      [] IsInt(value) \/ IsFloat(value) \/ IsBool(value) ->
            \* a bool is an int to isinstance, so it leaves through this branch too
            IF IsNonFinite(value) THEN VNone ELSE value
      [] IsStr(value) -> SanitizeString(value.str)
      [] IsList(value) ->
            IF \A ix \in DOMAIN value.list : IsStr(value.list[ix])
            THEN SanitizeString(JoinBar(value.list))
            ELSE IF JsonFails(value) THEN StrFallback(value)
            ELSE SanitizeString(JsonDumps(value))
      [] IsDict(value) ->
            IF JsonFails(value) THEN StrFallback(value) ELSE SanitizeString(JsonDumps(value))
      [] IsObject(value) ->
            \* lines 89-93: str(value) is sanitised, or "" when it raises
            IF value.object.str_ok THEN SanitizeString(ObjectText) ELSE VStr(<<>>)

(***************************************************************************)
(* safe_numeric_convert (lines 96-117)                                     *)
(***************************************************************************)
\* float(value) of an int or a float (a bool is an int: True is 1.0)
FloatOf(value) ==
    CASE IsBool(value) -> VFloat(IF value.bool THEN 10 ELSE 0)
      [] "int" \in DOMAIN value -> VFloat(10 * value.int)
      [] "hugeint" \in DOMAIN value -> Raised("OverflowError")
      [] OTHER -> value

safe_numeric_convert(value) ==
    IF IsNone(value) \/ value = VStr(<<>>) THEN VNone
    ELSE IF IsInt(value) \/ IsFloat(value) \/ IsBool(value)
         THEN (IF IsNonFinite(value) THEN VNone ELSE FloatOf(value))
    ELSE IF IsStr(value)
         THEN The({IF s = <<>> THEN VNone
                   ELSE The({IF IsRaised(result) \/ IsNonFinite(result) THEN VNone ELSE result :
                                result \in {ParseFloat(s)}}) :
                      s \in {Strip(value.str)}})
    ELSE VNone

(***************************************************************************)
(* flatten_row (lines 119-144): the flat dict, or Raised when the row is   *)
(* not a dict (`k in row` or row.get fails).                               *)
(***************************************************************************)
SimpleFields == <<"platform", "module", "component", "feature", "make_or_reuse", "complexity", "num_components">>
HourFields == <<"ui_design", "ui_module", "backend_logic", "general", "service_api", "db_structure", "db_programming", "db_udf">>

HourKey(hk) ==
    CASE hk = "ui_design" -> "hours.ui_design"
      [] hk = "ui_module" -> "hours.ui_module"
      [] hk = "backend_logic" -> "hours.backend_logic"
      [] hk = "general" -> "hours.general"
      [] hk = "service_api" -> "hours.service_api"
      [] hk = "db_structure" -> "hours.db_structure"
      [] hk = "db_programming" -> "hours.db_programming"
      [] hk = "db_udf" -> "hours.db_udf"

\* a value is falsy for `or`
IsFalsy(v) ==
    \/ IsNone(v) \/ v = VBool(FALSE) \/ v = VInt(0) \/ v = VFloat(0)
    \/ v = VStr(<<>>) \/ v = VList(<<>>) \/ v = VDict(<<>>)

flatten_row(row) ==
    IF ~IsDict(row) THEN Raised("row is not a mapping")
    ELSE
    LET simple == SelectSeq([ix \in 1..Len(SimpleFields) |-> <<SimpleFields[ix], GetKey(row, SimpleFields[ix], VNone)>>],
                            LAMBDA p : HasKey(row, p[1]))
        ppa == GetKey(row, "previous_project_actual", VNone)
        prev == IF IsDict(ppa)
                THEN << <<"previous_project_actual.project_name", GetKey(ppa, "project_name", VNone)>>,
                        <<"previous_project_actual.actual_working_days", GetKey(ppa, "actual_working_days", VNone)>> >>
                ELSE << <<"previous_project_actual.project_name", VNone>>,
                        <<"previous_project_actual.actual_working_days", VNone>> >>
        h0 == GetKey(row, "hours", VDict(<<>>))
        hours == IF IsFalsy(h0) THEN VDict(<<>>) ELSE h0
        hrs == [ix \in 1..Len(HourFields) |->
                  <<HourKey(HourFields[ix]),
                    IF IsDict(hours) THEN GetKey(hours, HourFields[ix], VInt(0)) ELSE VInt(0)>>]
    IN  VDict(simple \o prev \o hrs)

\* flat.get(json_key)
FlatGet(flat, k) == GetKey(flat, k, VNone)

(***************************************************************************)
(* The texts the template sheets hold.                                     *)
(***************************************************************************)
Module_ == HeaderTexts[2][1]
Features_ == HeaderTexts[4][1]
Platform_ == HeaderTexts[1][1]
BL_ == HeaderTexts[11][1]

\* header rows: the three texts find_header_row looks for; two recognised
\* texts; two recognised texts in another case, spacing and dash; none
LayoutFull == <<Module_, Features_, Platform_>>
LayoutShort == <<Module_, BL_>>
LayoutVariant == <<<<" ","M","A","K","E","/"," "," ","r","e","u","s","e">>, <<"D","B"," ","EN"," ","U","D","F","\n">>>>
LayoutUnknown == <<<<"N","o","t","e","s">>, <<"T","o","t","a","l">>>>
Layouts == {LayoutFull, LayoutShort, LayoutVariant, LayoutUnknown}

OldValue == VStr(<<"o">>)
Formula == VStr(<<"=","S","U","M","(","A","1",":","A","5",")">>)
FillValue == VStr(<<"x">>)
OtherText == VStr(<<"T">>)

(***************************************************************************)
(* The worksheet (openpyxl's Worksheet, as the script observes it):        *)
(*   cells       the cells that hold a value, <<row, column>> -> value     *)
(*   block       a run of rows block.first..block.last whose cells in the  *)
(*               columns block.cols all hold FillValue (a long filled data *)
(*               region, kept in closed form); cells overrides it          *)
(*   merged      the merged cells: they read as None and refuse a write    *)
(*   max_row, max_column   the sheet's dimensions; ws.cell() on a cell     *)
(*               outside them creates the cell and grows them              *)
(***************************************************************************)
TARGET_SHEET == "Estimation"

Max(a, b) == IF a >= b THEN a ELSE b
Min(a, b) == IF a <= b THEN a ELSE b
MinOf(S) == CHOOSE m \in S : \A n \in S : m <= n
MaxOf(S) == -MinOf({-n : n \in S})

InBlock(sheet, r, c) == c \in sheet.block.cols /\ sheet.block.first <= r /\ r <= sheet.block.last

\* ws.cell(row=r, column=c).value
CellValue(sheet, r, c) ==
    IF <<r, c>> \in sheet.merged THEN VNone
    ELSE IF <<r, c>> \in DOMAIN sheet.cells THEN sheet.cells[<<r, c>>]
    ELSE IF InBlock(sheet, r, c) THEN FillValue
    ELSE VNone

\* ws.cell(row=r, column=c) with no value: the cell exists afterwards
Touch(sheet, r, c) == [sheet EXCEPT !.max_row = Max(@, r), !.max_column = Max(@, c)]

\* cell.value = v: [ws, ok]; a merged cell raises (its value is read-only)
SetValue(sheet, r, c, v) ==
    IF <<r, c>> \in sheet.merged
    THEN [ws |-> Touch(sheet, r, c), ok |-> FALSE]
    ELSE [ws |-> [Touch(sheet, r, c) EXCEPT
                    !.cells = [p \in DOMAIN sheet.cells \cup {<<r, c>>} |->
                                 IF p = <<r, c>> THEN v ELSE sheet.cells[p]]],
          ok |-> TRUE]

\* ws.cell(row=r, column=c, value=v): a value of None assigns nothing
CellWrite(sheet, r, c, v) ==
    IF IsNone(v) THEN [ws |-> Touch(sheet, r, c), ok |-> TRUE] ELSE SetValue(sheet, r, c, v)

\* the cells of rows 1..rows and columns 1..cols whose value is not None
ValuedCells(sheet, rows, cols) ==
    {p \in DOMAIN sheet.cells \cup (sheet.block.first..Min(sheet.block.last, rows)) \X sheet.block.cols :
        /\ p[1] <= rows /\ p[2] <= cols
        /\ ~IsNone(CellValue(sheet, p[1], p[2]))}

\* row-major order of cells
Before(p, q) == p[1] < q[1] \/ (p[1] = q[1] /\ p[2] < q[2])

(***************************************************************************)
(* scan_header_columns, locate_columns (lines 146-180)                     *)
(***************************************************************************)
SEARCH_ROWS == 20
SCAN_MAX_COL == 200

\* norm(str(val)) for a cell value
CellKey(v) == norm(StrOf(v))

\* <<key, cell>> for every cell of the scanned rows and columns that passes
\* `if val is None: continue` and `if key`
KeyedCells(sheet) ==
    LET max_col == Min(sheet.max_column, SCAN_MAX_COL)
        max_search_row == Min(SEARCH_ROWS, sheet.max_row)
    IN  {e \in {<<CellKey(CellValue(sheet, p[1], p[2])), p>> : p \in ValuedCells(sheet, max_search_row, max_col)} :
            e[1] # <<>>}

\* a header map in which the last cell that has a key wins
LastOfKey(keyed) == {d \in keyed : \A o \in keyed : o[1] = d[1] => ~Before(d[2], o[2])}

\* `key not in header_map`: the first cell in row-major order that has the key
FirstOfKey(keyed) == {d \in keyed : \A o \in keyed : o[1] = d[1] => ~Before(o[2], d[2])}

\* header_map as the set of <<normalised text, column>>
scan_header_columns(sheet) == {<<e[1], e[2][2]>> : e \in The({FirstOfKey(keyed) : keyed \in {KeyedCells(sheet)}})}

\* lines 176-178: the entries of HEADER_TO_JSON found in scan, each with its column
ColumnsOf(scan, hits) == [j \in 1..Len(hits) |-> <<hits[j][2], (CHOOSE e \in scan : e[1] = hits[j][1])[2]>>]
ColumnsIn(scan) ==
    The({ColumnsOf(scan, hits) : hits \in {SelectSeq(HEADER_TO_JSON, LAMBDA h : \E e \in scan : e[1] = h[1])}})

\* col_map as the sequence of <<json_key, column>> in the order of HEADER_TO_JSON
locate_columns(sheet) == The({ColumnsIn(scan) : scan \in {scan_header_columns(sheet)}})

(***************************************************************************)
(* find_header_row (lines 182-210)                                         *)
(***************************************************************************)
HEADER_SEARCH_ROWS == 30
HEADER_SEARCH_COLS == 50
FALLBACK_ROWS == 10
FALLBACK_COLS == 20

HeaderTargets == {norm(<<"m","o","d","u","l","e">>), norm(<<"f","e","a","t","u","r","e","s">>),
                  norm(<<"p","l","a","t","f","o","r","m"," ","(","d","e","s","k","t","o","p"," ","/"," ","w","e","b"," ","/"," ","m","o","b","i","l","e",")">>)}

\* <<row, normalised text>> of every cell with a value in the searched rows
SeenTexts(sheet) ==
    {<<p[1], CellKey(CellValue(sheet, p[1], p[2]))>> :
        p \in ValuedCells(sheet, Min(HEADER_SEARCH_ROWS, sheet.max_row), Min(sheet.max_column, HEADER_SEARCH_COLS))}

\* the rows of range(1, min(10, ws.max_row + 1)) with a value other than None
\* and "" in their first columns
FallbackRows(sheet) ==
    {p[1] : p \in {q \in ValuedCells(sheet, Min(FALLBACK_ROWS, sheet.max_row + 1) - 1,
                                      Min(sheet.max_column, FALLBACK_COLS)) :
                      ~IsEmptyValue(CellValue(sheet, q[1], q[2]))}}

\* the first row whose texts include the targets, else the first fallback
\* row, else 1
FirstHeaderRow(hits, fallback) ==
    IF hits # {} THEN MinOf(hits)
    ELSE IF fallback # {} THEN MinOf(fallback)
    ELSE 1

find_header_row(sheet) ==
    The({FirstHeaderRow({r \in 1..Min(HEADER_SEARCH_ROWS, sheet.max_row) : \A t \in HeaderTargets : <<r, t>> \in seen},
                        fallback) :
            seen \in {SeenTexts(sheet)}, fallback \in {FallbackRows(sheet)}})

(***************************************************************************)
(* next_empty_data_row, get_last_filled_data_row (lines 212-252)           *)
(***************************************************************************)
SCAN_ROW_LIMIT == 5000
SCAN_ROW_SLACK == 100
MAX_DATA_COLUMN == 1000

\* some data column of row r holds a value that is not None and not ""
RowHasData(sheet, data_cols, r) ==
    \E c \in data_cols : c <= MAX_DATA_COLUMN /\ ~IsEmptyValue(CellValue(sheet, r, c))

\* an insertion point that ignores the rows already filled
RowBelowHeader(sheet, data_cols, hdr) == [row |-> hdr + 1, ws |-> sheet]

\* an insertion point one row past the last row examined when no row of the
\* range is empty
NextEmptyPastScan(sheet, data_cols, hdr) ==
    LET start == hdr + 1
        max_check_row == Min(sheet.max_row + SCAN_ROW_SLACK, start + SCAN_ROW_LIMIT)
        empty == {r \in start..(max_check_row - 1) : ~RowHasData(sheet, data_cols, r)}
    IN  IF empty # {}
        THEN [row |-> MinOf(empty), ws |-> [sheet EXCEPT !.max_row = Max(@, MinOf(empty))]]
        ELSE [row |-> max_check_row, ws |-> sheet]

\* [row, ws]: the first row of range(start, max_check_row) with no data, else
\* max_row + 1; reading the rows up to the one returned creates their cells
next_empty_data_row(sheet, data_cols, hdr) ==
    LET start == hdr + 1
        max_check_row == Min(sheet.max_row + SCAN_ROW_SLACK, start + SCAN_ROW_LIMIT)
        empty == {r \in start..(max_check_row - 1) : ~RowHasData(sheet, data_cols, r)}
    IN  IF empty # {}
        THEN [row |-> MinOf(empty), ws |-> [sheet EXCEPT !.max_row = Max(@, MinOf(empty))]]
        ELSE [row |-> sheet.max_row + 1, ws |-> sheet]

get_last_filled_data_row(sheet, data_cols, hdr) ==
    LET max_check_row == Min(sheet.max_row + 1, hdr + SCAN_ROW_LIMIT)
        filled == {r \in (hdr + 1)..(max_check_row - 1) : RowHasData(sheet, data_cols, r)}
    IN  IF filled # {} THEN MaxOf(filled) ELSE hdr

(***************************************************************************)
(* copy_formulas (lines 254-274)                                           *)
(***************************************************************************)
COPY_MAX_COL == 100

IsFormula(v) == IsStr(v) /\ v.str # <<>> /\ v.str[1] = "="

\* the columns of range(1, min(ws.max_column + 1, 100))
CopyColumns(sheet) == 1..(Min(sheet.max_column + 1, COPY_MAX_COL) - 1)

\* a copy that does not look at what the destination holds
CopiesFormulaOverwriting(sheet, src_row, dst_row, c) == IsFormula(CellValue(sheet, src_row, c))

\* the formula of src_row is copied into column c of dst_row
CopiesFormula(sheet, src_row, dst_row, c) ==
    /\ IsEmptyValue(CellValue(sheet, dst_row, c))
    /\ IsFormula(CellValue(sheet, src_row, c))

\* the sheet after copy_formulas(ws, src_row, dst_row); a merged destination
\* refuses the write, which is caught per cell
copy_formulas(sheet, src_row, dst_row) ==
    LET cols == {c \in CopyColumns(sheet) : CopiesFormula(sheet, src_row, dst_row, c) /\ <<dst_row, c>> \notin sheet.merged}
        grown == Touch(Touch(sheet, src_row, 1), dst_row, 1)
    IN  [grown EXCEPT !.cells =
            [p \in DOMAIN sheet.cells \cup {<<dst_row, c>> : c \in cols} |->
                IF p[1] = dst_row /\ p[2] \in cols THEN CellValue(sheet, src_row, p[2]) ELSE sheet.cells[p]]]

(***************************************************************************)
(* write_rows_to_estimation (lines 276-343), one input row at a time.      *)
(***************************************************************************)
\* data_cols (line 292): every key of HEADER_TO_JSON is an owned key
DataCols(cmap) == {cmap[j][2] : j \in DOMAIN cmap}

\* lines 306-307: the cell (current_row, 1) is created when the row is new
EnsureRow(sheet, row) ==
    IF row > sheet.max_row THEN Touch(sheet, row, 1) ELSE sheet

\* a copy condition that needs a second filled row below the header
CopyConditionSecondRow(row, last, hdr) == row > last /\ last > hdr + 1

\* line 309: the condition under which formulas are copied down
CopyCondition(row, last, hdr) ==
    row > last /\ last > hdr

\* lines 316-325: the value written for json_key, Raised when the numeric
\* conversion raises, VNone when the field is skipped
ValueFor(flat, json_key) ==
    LET val == FlatGet(flat, json_key)
        numeric_val == safe_numeric_convert(val)
    IN  IF IsNone(val) THEN VNone
        ELSE IF json_key \in JSON_NUMERIC_KEYS
        THEN (IF IsRaised(numeric_val) THEN numeric_val
              ELSE IF ~IsNone(numeric_val) THEN safe_excel_value(numeric_val)
              ELSE safe_excel_value(val))
        ELSE safe_excel_value(val)

\* lines 327-334: the write, and on failure one retry with str(safe_val)
WriteWithRetry(sheet, r, c, safe_val) ==
    LET first == CellWrite(sheet, r, c, safe_val)
        second == CellWrite(first.ws, r, c, IF IsNone(safe_val) THEN VStr(<<>>) ELSE VStr(StrOf(safe_val)))
    IN  IF first.ok THEN first.ws ELSE second.ws

\* a cell loop in which a refused write ends the row
WriteCellsUntilRefused(sheet, row, flat, cmap) ==
    LET f[j \in 0..Len(cmap)] ==
            IF j = 0 THEN [ws |-> sheet, ok |-> TRUE]
            ELSE LET prev == f[j-1]
                     json_key == cmap[j][1]
                     col_idx == cmap[j][2]
                     val == FlatGet(flat, json_key)
                     safe_val == ValueFor(flat, json_key)
                 IN  IF ~prev.ok THEN prev
                     ELSE IF col_idx > MAX_DATA_COLUMN \/ IsNone(val) THEN prev
                     ELSE IF IsRaised(safe_val) \/ <<row, col_idx>> \in prev.ws.merged
                     THEN [ws |-> prev.ws, ok |-> FALSE]
                     ELSE [ws |-> WriteWithRetry(prev.ws, row, col_idx, safe_val), ok |-> TRUE]
    IN  f[Len(cmap)]

\* lines 312-334: [ws, ok] after the loop over col_map for one flattened row;
\* ok is FALSE when an exception left the loop (the cells written before it stay)
WriteCells(sheet, row, flat, cmap) ==
    LET f[j \in 0..Len(cmap)] ==
            IF j = 0 THEN [ws |-> sheet, ok |-> TRUE]
            ELSE LET prev == f[j-1]
                     json_key == cmap[j][1]
                     col_idx == cmap[j][2]
                     val == FlatGet(flat, json_key)
                     safe_val == ValueFor(flat, json_key)
                 IN  IF ~prev.ok THEN prev
                     ELSE IF col_idx > MAX_DATA_COLUMN \/ IsNone(val) THEN prev
                     ELSE IF IsRaised(safe_val) THEN [ws |-> prev.ws, ok |-> FALSE]
                     ELSE [ws |-> WriteWithRetry(prev.ws, row, col_idx, safe_val), ok |-> TRUE]
    IN  f[Len(cmap)]

\* before load_workbook and json.load have run
Unloaded == [unloaded |-> TRUE]
Unparsed == [unparsed |-> TRUE]

\* raise: main ends with the exception
Raise(what) == pc' = "raised" /\ error' = what

\* a payload check that stops at the presence of the 'rows' key
PayloadErrorKeyOnly(d) ==
    IF ~IsDict(d) \/ ~HasKey(d, "rows") THEN "ValueError: JSON must contain a 'rows' key" ELSE "none"

\* lines 370-374: the payload is a dict with a 'rows' list
PayloadError(d) ==
    IF ~IsDict(d) \/ ~HasKey(d, "rows") THEN "ValueError: JSON must contain a 'rows' key"
    ELSE IF ~IsList(GetKey(d, "rows", VNone)) THEN "ValueError: JSON 'rows' must be an array"
    ELSE "none"

\* data["rows"]
Rows == IF IsDict(data) /\ IsList(GetKey(data, "rows", VNone)) THEN GetKey(data, "rows", VNone).list ELSE <<>>

\* lines 352-354
CheckInbook ==
    /\ pc = "start"
    /\ IF inbook_exists THEN pc' = "read_json" /\ error' = error
       ELSE Raise("FileNotFoundError")
    /\ UNCHANGED <<inbook_exists, inbook, data, ws, header_row, col_map, start_row,
                   last_filled, current_row, i, saved, stdout>>
    /\ UNCHANGED <<textVars, valueVars, rowIdVars, serveVars>>

\* lines 362-368: the payload file cannot be read, is not JSON, or parses
ReadJson(file) ==
    /\ pc = "read_json"
    /\ IF file.kind = "unreadable" THEN Raise("ValueError: Could not read JSON file") /\ data' = data
       ELSE IF file.kind = "invalid" THEN Raise("ValueError: Invalid JSON format") /\ data' = data
       ELSE pc' = "validate" /\ data' = file.value /\ error' = error
    /\ UNCHANGED <<inbook_exists, inbook, ws, header_row, col_map, start_row,
                   last_filled, current_row, i, saved, stdout>>
    /\ UNCHANGED <<textVars, valueVars, rowIdVars, serveVars>>

\* lines 370-374
ValidatePayload ==
    /\ pc = "validate"
    /\ IF PayloadError(data) = "none" THEN pc' = "load" /\ error' = error
       ELSE Raise(PayloadError(data))
    /\ UNCHANGED <<inbook_exists, inbook, data, ws, header_row, col_map, start_row,
                   last_filled, current_row, i, saved, stdout>>
    /\ UNCHANGED <<textVars, valueVars, rowIdVars, serveVars>>

\* lines 376-387: load the workbook and select the sheet
LoadWorkbook(book) ==
    /\ pc = "load"
    /\ IF ~book.loadable
       THEN Raise("ValueError: Could not load workbook") /\ UNCHANGED <<inbook, ws>>
       ELSE IF TARGET_SHEET \notin book.sheetnames
       THEN Raise("RuntimeError: Sheet not found") /\ inbook' = book /\ ws' = ws
       ELSE pc' = "write" /\ inbook' = book /\ ws' = book.sheet /\ error' = error
    /\ UNCHANGED <<inbook_exists, data, header_row, col_map, start_row,
                   last_filled, current_row, i, saved, stdout>>
    /\ UNCHANGED <<textVars, valueVars, rowIdVars, serveVars>>

\* line 302: the position after input row i has been dealt with
AfterRow(n) == IF n + 1 > Len(Rows) THEN "save" ELSE "row"

\* lines 297-298, with header_row and col_map given
InsertionPlan(sheet, hr, cm, dc) ==
    The({[header_row |-> hr, col_map |-> cm, start_row |-> ne.row, ws |-> ne.ws,
          last_filled |-> get_last_filled_data_row(ne.ws, dc, hr)] :
            ne \in {next_empty_data_row(sheet, dc, hr)}})

\* lines 281-300: header_row, col_map, start_row and last_filled, and the sheet
\* as the scans leave it
WritePlan(sheet) ==
    The({The({InsertionPlan(sheet, hr, cm, dc) : dc \in {DataCols(cm)}}) :
            hr \in {find_header_row(sheet)}, cm \in {locate_columns(sheet)}})

\* lines 277-300: the head of write_rows_to_estimation
WriteBegin ==
    /\ pc = "write"
    /\ IF Rows = <<>>
       THEN /\ pc' = "save"
            /\ UNCHANGED <<ws, header_row, col_map, start_row, last_filled, current_row, i, error>>
       ELSE IF DataCols(locate_columns(ws)) = {}
       THEN /\ Raise("RuntimeError: Could not locate required columns")
            /\ UNCHANGED <<ws, header_row, col_map, start_row, last_filled, current_row, i>>
       ELSE \E plan \in {WritePlan(ws)} :
                /\ pc' = "row"
                /\ header_row' = plan.header_row
                /\ col_map' = plan.col_map
                /\ start_row' = plan.start_row
                /\ last_filled' = plan.last_filled
                /\ ws' = plan.ws
                /\ current_row' = plan.start_row
                /\ i' = 1
                /\ error' = error
    /\ UNCHANGED <<inbook_exists, inbook, data, saved, stdout>>
    /\ UNCHANGED <<textVars, valueVars, rowIdVars, serveVars>>

\* lines 302-304 and 338-340: a row that cannot be flattened is skipped
SkipRow ==
    /\ pc = "row"
    /\ IsRaised(flatten_row(Rows[i]))
    /\ i' = i + 1
    /\ pc' = AfterRow(i)
    /\ UNCHANGED <<inbook_exists, inbook, data, ws, header_row, col_map, start_row,
                   last_filled, current_row, saved, stdout, error>>
    /\ UNCHANGED <<textVars, valueVars, rowIdVars, serveVars>>

\* lines 304-310: the row flattens; its sheet row is created and the formulas
\* of the last filled row are copied down
CopyFormulasStep ==
    /\ pc = "row"
    /\ ~IsRaised(flatten_row(Rows[i]))
    /\ ws' = IF CopyCondition(current_row, last_filled, header_row)
             THEN copy_formulas(EnsureRow(ws, current_row), last_filled, current_row)
             ELSE EnsureRow(ws, current_row)
    /\ pc' = "cells"
    /\ UNCHANGED <<inbook_exists, inbook, data, header_row, col_map, start_row,
                   last_filled, current_row, i, saved, stdout, error>>
    /\ UNCHANGED <<textVars, valueVars, rowIdVars, serveVars>>

\* lines 312-340: the cells of the row; the cursor advances unless the row raised
WriteCellsStep ==
    /\ pc = "cells"
    /\ LET w == WriteCells(ws, current_row, flatten_row(Rows[i]), col_map)
       IN  /\ ws' = w.ws
           /\ current_row' = IF w.ok THEN current_row + 1 ELSE current_row
    /\ i' = i + 1
    /\ pc' = AfterRow(i)
    /\ UNCHANGED <<inbook_exists, inbook, data, header_row, col_map, start_row,
                   last_filled, saved, stdout, error>>
    /\ UNCHANGED <<textVars, valueVars, rowIdVars, serveVars>>

\* a save whose failure is not noticed
AfterSaveUnchecked(outcome) == "print"

\* lines 394-399: the position after wb.save, by its outcome
AfterSave(outcome) == IF outcome = "saved" THEN "print" ELSE "raised"

SaveOutcomes == {"saved", "PermissionError", "RuntimeError: Could not save workbook"}

SaveWorkbook(outcome) ==
    /\ pc = "save"
    /\ pc' = AfterSave(outcome)
    /\ saved' = (outcome = "saved")
    /\ error' = IF outcome = "saved" THEN error ELSE outcome
    /\ UNCHANGED <<inbook_exists, inbook, data, ws, header_row, col_map, start_row,
                   last_filled, current_row, i, stdout>>
    /\ UNCHANGED <<textVars, valueVars, rowIdVars, serveVars>>

\* lines 401-402
PrintSuccess ==
    /\ pc = "print"
    /\ stdout' = Append(stdout, [line |-> "Successfully wrote", count |-> Len(Rows)])
    /\ pc' = "done"
    /\ UNCHANGED <<inbook_exists, inbook, data, ws, header_row, col_map, start_row,
                   last_filled, current_row, i, saved, error>>
    /\ UNCHANGED <<textVars, valueVars, rowIdVars, serveVars>>

\* lines 405-409: the exception is reported and the process exits with 1
ReportError ==
    /\ pc = "raised"
    /\ stdout' = Append(stdout, [line |-> "Error", count |-> 0])
    /\ pc' = "exit1"
    /\ UNCHANGED <<inbook_exists, inbook, data, ws, header_row, col_map, start_row,
                   last_filled, current_row, i, saved, error>>
    /\ UNCHANGED <<textVars, valueVars, rowIdVars, serveVars>>

(***************************************************************************)
(* The inputs of a run: template workbooks and payload files.              *)
(***************************************************************************)
MaxTemplateRows == 2
MaxRows == 2

\* the header row of a layout: the full layout sits below a blank first row
TopOf(layout) == IF layout = LayoutFull THEN 1 ELSE 0

\* the rows below the header: filled in every column or empty, the last one
\* filled in every column or in the first only
Patterns ==
    {p \in UNION {[1..n -> {"full", "part", "empty"}] : n \in 0..MaxTemplateRows} :
        /\ \A j \in 1..Len(p) : p[j] = "part" => j = Len(p)
        /\ Len(p) > 0 => p[Len(p)] # "empty"}

\* what else the sheet holds beside the header and the data: a formula column;
\* two formula columns and a text below the first; a formula column far to
\* the right; a formula column and merged cells in the row below the data
Extras == {"none", "formula", "formula_above_text", "formula_far", "formula_merged"}
ExtrasOf(layout) == IF layout = LayoutShort THEN Extras ELSE {"none"}

\* the first column right of every layout's header
FormulaCol == Len(LayoutFull) + 1

FormulaCols(extra) ==
    IF extra = "none" THEN {}
    ELSE IF extra = "formula_far" THEN {COPY_MAX_COL}
    ELSE IF extra = "formula_above_text" THEN {FormulaCol, FormulaCol + 1}
    ELSE {FormulaCol}

SheetOf(cells, block, merged) ==
    LET at == DOMAIN cells \cup merged
    IN  [cells |-> cells, block |-> block, merged |-> merged,
         max_row |-> MaxOf({1, block.last} \cup {p[1] : p \in at}),
         max_column |-> MaxOf({1} \cup block.cols \cup {p[2] : p \in at})]

NoBlock == [cols |-> {}, first |-> 1, last |-> 0]

Template(layout, pattern, extra) ==
    LET hr == TopOf(layout) + 1
        n == Len(layout)
        below == hr + Len(pattern) + 1
        hdr == {<<hr, c>> : c \in 1..n}
        dat == {q \in (hr+1..hr+Len(pattern)) \X (1..n) :
                    pattern[q[1] - hr] = "full" \/ (pattern[q[1] - hr] = "part" /\ q[2] = 1)}
        frm == {q[1] : q \in dat} \X FormulaCols(extra)
        txt == IF extra = "formula_above_text" THEN {<<below, FormulaCol>>} ELSE {}
        merged == IF extra = "formula_merged" THEN {<<below, 1>>, <<below, FormulaCol>>} ELSE {}
        cells == [p \in hdr \cup dat \cup frm \cup txt |->
                    IF p \in hdr THEN VStr(layout[p[2]])
                    ELSE IF p \in dat THEN OldValue
                    ELSE IF p \in frm THEN Formula
                    ELSE OtherText]
    IN  SheetOf(cells, NoBlock, merged)

\* a template whose data region is a block of `len` filled rows, with or
\* without a cell outside the data columns further down
LongTemplate(len, trailing) ==
    LET cells == [p \in {<<1, 1>>, <<1, 2>>} \cup (IF trailing THEN {<<len + 4, FormulaCol>>} ELSE {}) |->
                    IF p[1] = 1 THEN VStr(LayoutShort[p[2]]) ELSE OtherText]
    IN  SheetOf(cells, [cols |-> {1, 2}, first |-> 2, last |-> len + 1], {})

\* a template with nothing above its header row, whose header lacks some of
\* the texts find_header_row looks for
LowHeaderTemplate(hdr) ==
    SheetOf([p \in {<<hdr, 1>>, <<hdr, 2>>} |-> VStr(LayoutShort[p[2]])], NoBlock, {})

\* a template whose header texts occur more than once: to the right in the
\* header row, and in the first column of the row below
RepeatedHeaderTemplate ==
    SheetOf(<<1, 2>> :> VStr(Module_) @@ <<1, 3>> :> VStr(BL_) @@ <<1, 4>> :> VStr(BL_)
            @@ <<2, 1>> :> VStr(Module_), NoBlock, {})

\* a template with a header text in a cell above its header row
TitledTemplate ==
    SheetOf(<<1, 2>> :> VStr(Module_)
            @@ <<3, 1>> :> VStr(Module_) @@ <<3, 2>> :> VStr(Features_) @@ <<3, 3>> :> VStr(Platform_),
            NoBlock, {})

Sheets ==
    UNION {{Template(l, p, e) : p \in Patterns, e \in ExtrasOf(l)} : l \in Layouts}
    \cup {LongTemplate(len, tr) : len \in {SCAN_ROW_LIMIT - 1, SCAN_ROW_LIMIT}, tr \in BOOLEAN}
    \cup {LowHeaderTemplate(hdr) : hdr \in {FALLBACK_ROWS - 1, FALLBACK_ROWS}}
    \cup {RepeatedHeaderTemplate, TitledTemplate}

Inbooks ==
    {[loadable |-> FALSE, sheetnames |-> {}, sheet |-> Unloaded],
     [loadable |-> TRUE, sheetnames |-> {"Sheet1"}, sheet |-> Unloaded]}
    \cup {[loadable |-> TRUE, sheetnames |-> {"Summary", TARGET_SHEET}, sheet |-> s] : s \in Sheets}

\* input rows: two well-formed records, a row that is not a mapping, and a
\* record whose hours value is an integer too large for a float
RowA == VDict(<< <<"module", VStr(<<"a">>)>>, <<"feature", VStr(<<"f">>)>>, <<"platform", VStr(<<"w","e","b">>)>>,
                 <<"make_or_reuse", VStr(<<"M","a","k","e">>)>>,
                 <<"hours", VDict(<< <<"backend_logic", VInt(2)>>, <<"db_udf", VStr(<<"1",".","5">>)>> >>)>> >>)
RowB == VDict(<< <<"module", VStr(<<"b">>)>>, <<"feature", VNone>>,
                 <<"hours", VDict(<< <<"backend_logic", VStr(<<"a","b","c">>)>> >>)>> >>)
RowNotMapping == VStr(<<"m","o","d","u","l","e">>)
RowHuge == VDict(<< <<"module", VStr(<<"c">>)>>, <<"hours", VDict(<< <<"backend_logic", VHugeInt>> >>)>> >>)

RowKinds == {RowA, RowB, RowNotMapping, RowHuge}
RowLists == UNION {[1..n -> RowKinds] : n \in 0..MaxRows}

JsonFiles ==
    {[kind |-> "unreadable"], [kind |-> "invalid"],
     [kind |-> "value", value |-> VList(<<>>)],
     [kind |-> "value", value |-> VDict(<< <<"project", VStr(<<"p">>)>> >>)],
     [kind |-> "value", value |-> VDict(<< <<"rows", VDict(<<>>)>> >>)]}
    \cup {[kind |-> "value", value |-> VDict(<< <<"project", VStr(<<"p">>)>>, <<"rows", VList(rows)>> >>)] : rows \in RowLists}

\* no call made yet
NoCall == [fn |-> "none"]

\* the parts of the state a specification leaves alone
TextIdle == text = <<>> /\ canon = 0 /\ edits = 0
ValueIdle == given = VNone /\ call = NoCall
NoIds == <<>>
RowIdIdle == row_a = <<>> /\ row_b = <<>> /\ row_ids = NoIds
NoResponse == [fn |-> "none"]
NoEstimation == [unsaved |-> TRUE]
EstimationIdle == estimation = NoEstimation /\ tasks = {} /\ upload = "none"
ServeIdle == requests = {} /\ now = 0 /\ response = NoResponse /\ EstimationIdle

\* the state before main runs
RunInit ==
    /\ pc = "start"
    /\ inbook = Unloaded
    /\ data = Unparsed
    /\ ws = Unloaded
    /\ header_row = 0
    /\ col_map = <<>>
    /\ start_row = 0
    /\ last_filled = 0
    /\ current_row = 0
    /\ i = 0
    /\ saved = FALSE
    /\ stdout = <<>>
    /\ error = "none"

Init ==
    /\ RunInit
    /\ inbook_exists \in BOOLEAN
    /\ TextIdle /\ ValueIdle /\ RowIdIdle /\ ServeIdle

Next ==
    \/ CheckInbook
    \/ pc = "read_json" /\ \E file \in JsonFiles : ReadJson(file)
    \/ ValidatePayload
    \/ pc = "load" /\ \E book \in Inbooks : LoadWorkbook(book)
    \/ WriteBegin
    \/ SkipRow
    \/ CopyFormulasStep
    \/ WriteCellsStep
    \/ pc = "save" /\ \E outcome \in SaveOutcomes : SaveWorkbook(outcome)
    \/ PrintSuccess
    \/ ReportError

Spec == Init /\ [][Next]_vars

(***************************************************************************)
(* Header texts: free text typed a character at a time, the respellings of *)
(* a recognised header, and norm applied to either.                        *)
(***************************************************************************)
MaxLen == 3
MaxEdits == 2

\* the characters of free text: letters of both cases, whitespace, dashes
\* and a character outside the class norm keeps
TypedChars == {"a", "B", " ", "-", "EM", "!"}

\* the whitespace a spelling may add
SpaceChars == {" ", "\t", "\n"}

\* str.upper() on one character, and on a text
UpperChar(c) ==
    IF c = "final_sigma" THEN "SIGMA"
    ELSE IF \E n \in DOMAIN LowerChars : LowerChars[n] = c
    THEN UpperChars[CHOOSE n \in DOMAIN LowerChars : LowerChars[n] = c]
    ELSE c
Upper(s) == Seq_([n \in 1..Len(s) |-> UpperChar(s[n])])

IsLetter(c) == LowerChar(c) # UpperChar(c)

\* s with the character at position n replaced by the characters of t
Splice(s, n, t) == SubSeq(s, 1, n - 1) \o t \o SubSeq(s, n + 1, Len(s))

\* the worksheet whose only cell is a header cell holding t, in the column of
\* the header's entry
HeaderSheet(t, col) == SheetOf([p \in {<<1, col>>} |-> VStr(t)], NoBlock, {})

TypeChar(c) ==
    /\ canon = 0
    /\ Len(text) < MaxLen
    /\ text' = Append(text, c)
    /\ UNCHANGED <<canon, edits, runVars, valueVars, rowIdVars, serveVars>>

\* the spelling changes to another one of the same header
Respell(t) ==
    /\ canon # 0
    /\ edits < MaxEdits
    /\ t # text
    /\ text' = t
    /\ edits' = edits + 1
    /\ UNCHANGED <<canon, runVars, valueVars, rowIdVars, serveVars>>

UpperAll == Respell(Upper(text))
LowerAll == Respell(Lower(text))
ToggleCase(n) ==
    /\ IsLetter(text[n])
    /\ Respell(Splice(text, n, <<IF text[n] = LowerChar(text[n]) THEN UpperChar(text[n]) ELSE LowerChar(text[n])>>))
WidenSpace(n, c) ==
    /\ IsSpace(text[n])
    /\ Respell(Splice(text, n, <<text[n], c>>))
SwapDash(n, d) ==
    /\ IsDash(text[n])
    /\ Respell(Splice(text, n, <<d>>))
PadLeft(c) == Respell(<<c>> \o text)
PadRight(c) == Respell(Append(text, c))

\* norm applied to the text
Normalise ==
    /\ text' = norm(text)
    /\ text' # text
    /\ UNCHANGED <<canon, edits, runVars, valueVars, rowIdVars, serveVars>>

InitText ==
    /\ RunInit
    /\ inbook_exists = TRUE
    /\ canon \in 0..Len(HeaderTexts)
    /\ text = IF canon = 0 THEN <<>> ELSE HeaderTexts[canon][1]
    /\ edits = 0
    /\ ValueIdle /\ RowIdIdle /\ ServeIdle

NextText ==
    \/ \E c \in TypedChars : TypeChar(c)
    \/ UpperAll
    \/ LowerAll
    \/ \E n \in DOMAIN text : ToggleCase(n)
    \/ \E n \in DOMAIN text, c \in SpaceChars : WidenSpace(n, c)
    \/ \E n \in DOMAIN text, d \in {"-", "EN", "EM"} : SwapDash(n, d)
    \/ \E c \in SpaceChars : PadLeft(c)
    \/ \E c \in SpaceChars : PadRight(c)
    \/ Normalise

SpecText == InitText /\ [][NextText]_vars

(***************************************************************************)
(* Values on their own: a value of any shape is built, and                 *)
(* safe_excel_value, safe_numeric_convert or flatten_row is called with    *)
(* it.                                                                     *)
(***************************************************************************)
MaxItems == 2

\* the characters typed into a string: a letter, a digit, the point, the
\* minus, a space and two control characters
ValueChars == {"a", "1", ".", "-", " ", "BEL", "DEL"}

LongText(n) == [ix \in 1..n |-> "x"]

SeedTexts ==
    {<<>>, <<"1","2",".","5">>, <<" ","1","2",".","5","\n">>, <<"a","b","c">>,
     <<"n","a","n">>, <<"I","n","f">>, <<"-","i","n","f","i","n","i","t","y">>, <<" ","\t">>}

\* the lengths of long strings: the most a cell holds, one more, and twice that
LongLengths == {MAX_CELL_CHARS, MAX_CELL_CHARS + 1, MAX_CELL_CHARS + MAX_CELL_CHARS}

\* the elements put into a list
ListElements ==
    {VStr(<<"a">>), VStr(<<"b">>), VStr(<<"a","DEL">>), VInt(1), VNone,
     VObject(TRUE, TRUE), VObject(TRUE, FALSE)}

SeedValues ==
    {VNone, VBool(TRUE), VBool(FALSE), VInt(0), VInt(7), VInt(-3), VHugeInt,
     VFloat(125), VFloat(-5), VNaN, VInf, VNegInf, VList(<<>>), VDict(<<>>)}
    \cup {VStr(t) : t \in SeedTexts}
    \cup {VObject(s, r) : s, r \in BOOLEAN}

TypeValueChar(c) ==
    /\ IsStr(given)
    /\ Len(given.str) < MaxLen
    /\ given' = VStr(Append(given.str, c))
    /\ call' = NoCall
    /\ UNCHANGED <<runVars, textVars, rowIdVars, serveVars>>

\* a one-character string is followed by filler up to a long length
Lengthen(n) ==
    /\ IsStr(given)
    /\ Len(given.str) = 1
    /\ given.str[1] \in {"a", "BEL"}
    /\ given' = VStr(given.str \o LongText(n - 1))
    /\ call' = NoCall
    /\ UNCHANGED <<runVars, textVars, rowIdVars, serveVars>>

\* a long string of letters becomes the only element of a list
WrapList ==
    /\ IsStr(given)
    /\ Len(given.str) = MAX_CELL_CHARS
    /\ given.str[1] = "a"
    /\ given' = VList(<<given>>)
    /\ call' = NoCall
    /\ UNCHANGED <<runVars, textVars, rowIdVars, serveVars>>

\* a list gets one more element (a list that holds a long string gets one)
ExtendList(e) ==
    /\ IsList(given)
    /\ Len(given.list) < MaxItems
    /\ \A ix \in DOMAIN given.list : IsStr(given.list[ix]) /\ Len(given.list[ix].str) > MaxLen => Len(given.list) < 2
    /\ given' = VList(Append(given.list, e))
    /\ call' = NoCall
    /\ UNCHANGED <<runVars, textVars, rowIdVars, serveVars>>

WrapDict ==
    /\ ~IsDict(given)
    /\ ~IsStr(given)
    /\ given' = VDict(<< <<"module", given>> >>)
    /\ call' = NoCall
    /\ UNCHANGED <<runVars, textVars, rowIdVars, serveVars>>

\* a scalar becomes the value of one hour bucket
WrapBucket ==
    /\ ~IsDict(given) /\ ~IsList(given) /\ ~IsObject(given)
    /\ IsStr(given) => Len(given.str) <= MaxLen
    /\ given' = VDict(<< <<"backend_logic", given>> >>)
    /\ call' = NoCall
    /\ UNCHANGED <<runVars, textVars, rowIdVars, serveVars>>

\* a value becomes the hours of a row record
WrapHours ==
    /\ ~(IsDict(given) /\ HasKey(given, "hours"))
    /\ ~IsObject(given)
    /\ IsStr(given) => Len(given.str) <= MaxLen
    /\ IsList(given) => \A ix \in DOMAIN given.list : ~IsObject(given.list[ix]) /\ (IsStr(given.list[ix]) => Len(given.list[ix].str) <= MaxLen)
    /\ given' = VDict(<< <<"module", VStr(<<"a">>)>>, <<"hours", given>> >>)
    /\ call' = NoCall
    /\ UNCHANGED <<runVars, textVars, rowIdVars, serveVars>>

\* flatten_row(given)
Flatten ==
    /\ IsDict(given)
    /\ call' = [fn |-> "flatten_row", arg |-> given, out |-> flatten_row(given)]
    /\ UNCHANGED <<given, runVars, textVars, rowIdVars, serveVars>>

\* safe_excel_value(given)
Sanitise ==
    /\ call' = [fn |-> "safe_excel_value", arg |-> given, out |-> safe_excel_value(given)]
    /\ UNCHANGED <<given, runVars, textVars, rowIdVars, serveVars>>

\* safe_numeric_convert(given)
Convert ==
    /\ call' = [fn |-> "safe_numeric_convert", arg |-> given, out |-> safe_numeric_convert(given)]
    /\ UNCHANGED <<given, runVars, textVars, rowIdVars, serveVars>>

InitValue ==
    /\ RunInit
    /\ inbook_exists = TRUE
    /\ given \in SeedValues
    /\ call = NoCall
    /\ TextIdle /\ RowIdIdle /\ ServeIdle

NextValue ==
    \/ \E c \in ValueChars : TypeValueChar(c)
    \/ \E n \in LongLengths : Lengthen(n)
    \/ WrapList
    \/ \E e \in ListElements : ExtendList(e)
    \/ WrapDict
    \/ WrapBucket
    \/ WrapHours
    \/ Flatten
    \/ Sanitise
    \/ Convert

SpecValue == InitValue /\ [][NextValue]_vars

(***************************************************************************)
(* Row ids on their own (services/importer.py, lines 54-62): two rows of   *)
(* an envelope are given, the second respelt from the first in letter case *)
(* and in leading and trailing whitespace, and their ids are computed.     *)
(***************************************************************************)
MaxPad == 1

KeyFields == <<"platform", "module", "component", "feature">>

\* row_data.get(k, "")
RowGet(row_data, k) == IF k \in DOMAIN row_data THEN row_data[k] ELSE VStr(<<>>)

\* "|".join(parts)
JoinPipe(parts) ==
    LET f[ix \in 0..Len(parts)] ==
            IF ix = 0 THEN <<>>
            ELSE f[ix-1] \o (IF ix > 1 THEN <<"|">> ELSE <<>>) \o parts[ix]
    IN  f[Len(parts)]

\* c.encode("utf-8"): the bytes of one character
Utf8Char(c) ==
    CASE \E n \in 1..26 : LowerChars[n] = c -> <<96 + (CHOOSE n \in 1..26 : LowerChars[n] = c)>>
      [] \E n \in 1..26 : UpperChars[n] = c -> <<64 + (CHOOSE n \in 1..26 : UpperChars[n] = c)>>
      [] c = " " -> <<32>>
      [] c = "\t" -> <<9>>
      [] c = "+" -> <<43>>
      [] c = "|" -> <<124>>
      [] c = "SIGMA" -> <<206, 163>>
      [] c = "final_sigma" -> <<207, 130>>
      [] c = "sigma" -> <<207, 131>>

\* raw.encode("utf-8")
Utf8(raw) ==
    LET f[ix \in 0..Len(raw)] == IF ix = 0 THEN <<>> ELSE f[ix-1] \o Utf8Char(raw[ix])
    IN  f[Len(raw)]

\* hashlib.sha1(b).hexdigest(): the digest stands for the bytes digested
\* (no two byte strings of the model collide)
Sha1Hex(b) == [sha1 |-> b]

compute_row_id(row_data) ==
    LET key_parts == [n \in 1..Len(KeyFields) |-> StrOf(RowGet(row_data, KeyFields[n]))]
        raw == JoinPipe([n \in 1..Len(KeyFields) |-> Lower(Strip(key_parts[n]))])
    IN  Sha1Hex(Utf8(raw))

\* the rows respelt: the row of test_row_id_stability with shorter words, a
\* row with Greek text and a missing key, a row with a null
SeedRows ==
    { [platform |-> VStr(<<"W", "e">>), module |-> VStr(<<"A", "u">>),
       component |-> VStr(<<"L">>), feature |-> VStr(<<"E", "+", "P">>)],
      [platform |-> VStr(<<"SIGMA", "a">>), module |-> VStr(<<"o", "SIGMA">>), feature |-> VStr(<<>>)],
      [platform |-> VStr(<<"w">>), module |-> VNone, component |-> VStr(<<"a", " ", "b">>),
       feature |-> VStr(<<"sigma">>)] }

\* the characters of the string fields of a row, counted
TextLength(row_data) ==
    LET keys == {k \in DOMAIN row_data : IsStr(row_data[k])}
        f[S \in SUBSET keys] ==
            IF S = {} THEN 0
            ELSE LET k == CHOOSE x \in S : TRUE IN Len(row_data[k].str) + f[S \ {k}]
    IN  f[keys]

Respelt(k, s) ==
    /\ row_b' = [row_b EXCEPT ![k] = VStr(s)]
    /\ row_ids' = NoIds
    /\ UNCHANGED <<row_a, runVars, textVars, valueVars, serveVars>>

\* one letter of row_b is written in the other case
Recase(k, n) ==
    /\ row_b # <<>>
    /\ k \in DOMAIN row_b
    /\ IsStr(row_b[k])
    /\ n \in DOMAIN row_b[k].str
    /\ \E c \in {row_b[k].str[n]} :
          /\ IsLetter(c)
          /\ Respelt(k, Splice(row_b[k].str, n, <<IF c = LowerChar(c) THEN UpperChar(c) ELSE LowerChar(c)>>))

\* whitespace is put before or after a value of row_b
PadBefore(k, w) ==
    /\ row_b # <<>>
    /\ k \in DOMAIN row_b
    /\ IsStr(row_b[k])
    /\ TextLength(row_b) - TextLength(row_a) < MaxPad
    /\ Respelt(k, <<w>> \o row_b[k].str)

PadAfter(k, w) ==
    /\ row_b # <<>>
    /\ k \in DOMAIN row_b
    /\ IsStr(row_b[k])
    /\ TextLength(row_b) - TextLength(row_a) < MaxPad
    /\ Respelt(k, row_b[k].str \o <<w>>)

ComputeRowIds ==
    /\ row_b # <<>>
    /\ row_ids = NoIds
    /\ row_ids' = <<compute_row_id(row_a), compute_row_id(row_b)>>
    /\ UNCHANGED <<row_a, row_b, runVars, textVars, valueVars, serveVars>>

InitRowId ==
    /\ RunInit
    /\ inbook_exists = TRUE
    /\ row_a \in SeedRows
    /\ row_b = row_a
    /\ row_ids = NoIds
    /\ TextIdle /\ ValueIdle /\ ServeIdle

NextRowId ==
    \/ \E k \in Range(KeyFields), n \in 1..4 : Recase(k, n)
    \/ \E k \in Range(KeyFields), w \in {" ", "\t"} : PadBefore(k, w)
    \/ \E k \in Range(KeyFields), w \in {" ", "\t"} : PadAfter(k, w)
    \/ ComputeRowIds

SpecRowId == InitRowId /\ [][NextRowId]_vars

(***************************************************************************)
(* The HTTP layer's Excel generations: ExcelService.generate_excel and     *)
(* generate_with_custom_template (services/excel.py) and                   *)
(* process_estimation_json (routes/tools.py).  Each is a coroutine of the  *)
(* event loop; a request of the model is a coroutine standing at an await  *)
(* inside its `with tempfile.TemporaryDirectory()` block, and the code     *)
(* between two awaits is one step.  The bundled template exists.           *)
(***************************************************************************)
MaxRequests == 2
MaxNow == 1

\* the project names and estimate ids requests come with
ProjectNames == {<<"p">>, <<"/", "p">>, <<"p", " ", "1">>}
EstimateIds == {<<"1">>, <<"2">>}

\* tempfile.mkdtemp: a directory of the system's temporary directory
TempDir(n) == <<"/", "t", "m", "p", "/", "t", "m", "p", DigitChars[n + 1]>>
TempDirs == {TempDir(n) : n \in 1..MaxRequests}

\* the directories of the coroutines inside their `with` block
DirsInUse == {r.temp_dir : r \in requests}

\* pathlib's dir / rel: an absolute right operand replaces the left one
PathJoin(dir, rel) == IF rel # <<>> /\ rel[1] = "/" THEN rel ELSE dir \o <<"/">> \o rel

\* f"{project_name}_FILLED_{tag}.xlsx"
FilledName(project_name, tag) ==
    project_name \o <<"_", "F", "I", "L", "L", "E", "D", "_">> \o tag \o <<".", "x", "l", "s", "x">>

\* routes/tools.py, lines 107-108: keep letters, digits, ' ', '-' and '_',
\* strip, and write '_' for ' '
IsAlnum(c) == IsLetter(c) \/ c \in Range(DigitChars)
SafeProjectName(project_name) ==
    LET kept == Strip(SelectSeq(project_name, LAMBDA c : IsAlnum(c) \/ c \in {" ", "-", "_"}))
    IN  [ix \in DOMAIN kept |-> IF kept[ix] = " " THEN "_" ELSE kept[ix]]

\* datetime.now().strftime("%Y%m%d_%H%M%S"): the seconds of the clock
Timestamp == <<DigitChars[now + 1]>>

\* a coroutine awaiting its subprocess: the --outbook argument it passed
Launched(fn, temp_dir, output_path) ==
    [fn |-> fn, at |-> "communicate", temp_dir |-> temp_dir, outbook |-> output_path]

\* generate_excel, lines 43-83: temporary directory, paths, command,
\* create_subprocess_exec
generate_excel(project_name, estimate_id) ==
    /\ Cardinality(requests) < MaxRequests
    /\ \E temp_dir \in TempDirs \ DirsInUse :
          requests' = requests \cup
              {Launched("generate_excel", temp_dir, PathJoin(temp_dir, FilledName(project_name, estimate_id)))}
    /\ UNCHANGED <<now, response, estimationVars, runVars, textVars, valueVars, rowIdVars>>

\* generate_with_custom_template, lines 120-125: temporary directory, then
\* await template_file.read()
generate_with_custom_template(project_name, estimate_id) ==
    /\ Cardinality(requests) < MaxRequests
    /\ \E temp_dir \in TempDirs \ DirsInUse :
          requests' = requests \cup
              {[fn |-> "generate_with_custom_template", at |-> "read", temp_dir |-> temp_dir,
                project_name |-> project_name, estimate_id |-> estimate_id]}
    /\ UNCHANGED <<now, response, estimationVars, runVars, textVars, valueVars, rowIdVars>>

\* generate_with_custom_template, lines 125-157: the template is read; paths,
\* command, create_subprocess_exec
TemplateRead(r) ==
    /\ r \in requests
    /\ r.at = "read"
    /\ requests' = (requests \ {r}) \cup
          {Launched(r.fn, r.temp_dir, PathJoin(r.temp_dir, FilledName(r.project_name, r.estimate_id)))}
    /\ UNCHANGED <<now, response, estimationVars, runVars, textVars, valueVars, rowIdVars>>

\* process_estimation_json, lines 59-135
process_estimation_json(project_name) ==
    /\ Cardinality(requests) < MaxRequests
    /\ \E temp_dir \in TempDirs \ DirsInUse :
          requests' = requests \cup
              {Launched("process_estimation_json", temp_dir,
                        PathJoin(temp_dir, FilledName(SafeProjectName(project_name), Timestamp)))}
    /\ UNCHANGED <<now, response, estimationVars, runVars, textVars, valueVars, rowIdVars>>

\* how the subprocess can end: create_subprocess_exec or communicate raises,
\* or the script exits with a return code, with or without text on stderr,
\* the --outbook file written or not
Outcomes ==
    {[raised |-> TRUE, returncode |-> 1, outbook_exists |-> FALSE, stderr |-> FALSE]}
    \cup [raised : {FALSE}, returncode : {0, 1}, outbook_exists : BOOLEAN, stderr : BOOLEAN]

\* a FileResponse with status 200, and an exception that leaves the coroutine
FileResponse(fn, body, outcome) == [fn |-> fn, kind |-> "file", body |-> body, outcome |-> outcome]
Raises(fn, what, outcome) == [fn |-> fn, kind |-> "error", body |-> what, outcome |-> outcome]

\* routes/tools.py, lines 128-183: the generated workbook when the script
\* exited with 0 and wrote it; the HTTPException of line 165 is raised inside
\* the try block and caught by `except Exception` at line 167 like any other
\* exception, and every other path reaches the "last resort" of lines 170-181,
\* where template_path, copied at lines 96-99, exists
ProcessResponse(outcome) ==
    IF ~outcome.raised /\ outcome.returncode = 0 /\ outcome.outbook_exists
    THEN FileResponse("process_estimation_json", "outbook", outcome)
    ELSE FileResponse("process_estimation_json", "template", outcome)

\* services/excel.py, lines 85-102 and 160-178: RuntimeError for a non-zero
\* return code, else shutil.copy2 to UPLOAD_DIR, which raises when the
\* output is missing; every exception is logged and raised again
GenerateResponse(fn, outcome) ==
    IF outcome.raised THEN Raises(fn, "Exception", outcome)
    ELSE IF outcome.returncode # 0 THEN Raises(fn, "RuntimeError: Excel generation failed", outcome)
    ELSE IF ~outcome.outbook_exists THEN Raises(fn, "FileNotFoundError", outcome)
    ELSE [fn |-> fn, kind |-> "path", body |-> "final_path", outcome |-> outcome]

\* the subprocess ends: communicate returns, the coroutine responds, and the
\* `with` block removes the temporary directory
SubprocessExit(r, outcome) ==
    /\ r \in requests
    /\ r.at = "communicate"
    /\ requests' = requests \ {r}
    /\ response' = IF r.fn = "process_estimation_json" THEN ProcessResponse(outcome)
                   ELSE GenerateResponse(r.fn, outcome)
    /\ UNCHANGED <<now, estimationVars, runVars, textVars, valueVars, rowIdVars>>

\* a second passes
Tick ==
    /\ now < MaxNow
    /\ now' = now + 1
    /\ UNCHANGED <<requests, response, estimationVars, runVars, textVars, valueVars, rowIdVars>>

InitServe ==
    /\ RunInit
    /\ inbook_exists = TRUE
    /\ requests = {}
    /\ now = 0
    /\ response = NoResponse
    /\ EstimationIdle
    /\ TextIdle /\ ValueIdle /\ RowIdIdle

NextServe ==
    \/ \E project_name \in ProjectNames, estimate_id \in EstimateIds : generate_excel(project_name, estimate_id)
    \/ \E project_name \in ProjectNames, estimate_id \in EstimateIds :
          generate_with_custom_template(project_name, estimate_id)
    \/ \E r \in requests : TemplateRead(r)
    \/ \E project_name \in ProjectNames : process_estimation_json(project_name)
    \/ \E r \in requests, outcome \in Outcomes : SubprocessExit(r, outcome)
    \/ Tick

SpecServe == InitServe /\ [][NextServe]_vars

(***************************************************************************)
(* The estimations service (services/estimations.py): one estimation       *)
(* document with its versions and its envelope data, the background tasks  *)
(* update_envelope_data creates with asyncio.create_task, and the file     *)
(* UPLOAD_DIR/<id>.xlsx.  The calls of the service follow one another; the *)
(* background tasks run between them and end in any order.                 *)
(***************************************************************************)
MaxVersions == 3
MaxUpdates == 2

\* the envelopes update_envelope_data is called with
Envelopes == {"e1", "e2"}

\* services/importer.py, lines 187-213: a new estimation has the current
\* version 1, no versions, and the envelope of the import
NewEstimation == [current_version |-> [version_number |-> 1], versions |-> <<>>, envelope_data |-> "e0"]

\* snapshot_version, lines 191-209: the number after the current version's,
\* pushed to versions and made the current version
snapshot_version ==
    /\ Len(estimation.versions) < MaxVersions
    /\ \E new_version \in {[version_number |-> estimation.current_version.version_number + 1]} :
          estimation' = [estimation EXCEPT !.versions = Append(@, new_version),
                                           !.current_version = new_version]
    /\ UNCHANGED <<tasks, upload, requests, now, response, runVars, textVars, valueVars, rowIdVars>>

\* next(v for v in est.versions if v.version_number == version_number)
TargetVersions(version_number) ==
    SelectSeq(estimation.versions, LAMBDA v : v.version_number = version_number)

\* rollback_version, lines 217-230: the first version with the number becomes
\* the current version; versions stays as it is
rollback_version(version_number) ==
    /\ TargetVersions(version_number) # <<>>
    /\ estimation' = [estimation EXCEPT !.current_version = TargetVersions(version_number)[1]]
    /\ UNCHANGED <<tasks, upload, requests, now, response, runVars, textVars, valueVars, rowIdVars>>

\* update_envelope_data, lines 106-118: the envelope is stored, the
\* estimation read back, and a task created with the estimation as read
update_envelope_data(envelope) ==
    /\ Cardinality(tasks) < MaxUpdates
    /\ estimation' = [estimation EXCEPT !.envelope_data = envelope]
    /\ \E n \in (1..MaxUpdates) \ {t.n : t \in tasks} :
          tasks' = tasks \cup {[n |-> n, envelope_data |-> envelope]}
    /\ UNCHANGED <<upload, requests, now, response, runVars, textVars, valueVars, rowIdVars>>

\* generate_excel, lines 85-102, in a task: the script has ended; with return
\* code 0 the workbook generated from the task's envelope is copied to
\* UPLOAD_DIR/<id>.xlsx, otherwise the exception ends the task
GenerateExit(t, returncode) ==
    /\ t \in tasks
    /\ tasks' = tasks \ {t}
    /\ upload' = IF returncode = 0 THEN t.envelope_data ELSE upload
    /\ UNCHANGED <<estimation, requests, now, response, runVars, textVars, valueVars, rowIdVars>>

InitEstimation ==
    /\ RunInit
    /\ inbook_exists = TRUE
    /\ estimation = NewEstimation
    /\ tasks = {}
    /\ upload = "none"
    /\ requests = {} /\ now = 0 /\ response = NoResponse
    /\ TextIdle /\ ValueIdle /\ RowIdIdle

NextEstimation ==
    \/ snapshot_version
    \/ \E version_number \in 1..(MaxVersions + 1) : rollback_version(version_number)
    \/ \E envelope \in Envelopes : update_envelope_data(envelope)
    \/ \E t \in tasks, returncode \in {0, 1} : GenerateExit(t, returncode)

SpecEstimation == InitEstimation /\ [][NextEstimation]_vars

(***************************************************************************)
(* What the run leaves behind, for the properties below.  The template as  *)
(* loaded is inbook.sheet; ws is the sheet after the writes.               *)
(***************************************************************************)
WriteDone == pc = "save" /\ Rows # <<>>

\* row r of a sheet holds a value in every data column / in no data column
RowFull(sheet, r) == \A c \in DataCols(col_map) : ~IsEmptyValue(CellValue(sheet, r, c))
RowEmpty(sheet, r) == ~RowHasData(sheet, DataCols(col_map), r)

\* k: the number of rows directly below the header that are full
FilledRun(sheet) == MinOf({k \in 0..sheet.max_row : ~RowFull(sheet, header_row + k + 1)})

\* the last row below the header with a value in some data column
LastDataRow(sheet) ==
    MaxOf({header_row} \cup {r \in (header_row + 1)..sheet.max_row : RowHasData(sheet, DataCols(col_map), r)})

\* an input row that is written without raising
ValidRow(row) ==
    /\ ~IsRaised(flatten_row(row))
    /\ \A j \in DOMAIN col_map : ~IsRaised(ValueFor(flatten_row(row), col_map[j][1]))

\* a later field of col_map has the same column and a value: the column map
\* need not be injective, and the loop over col_map writes the later value
\* over the earlier one
WrittenOver(row, j) ==
    \E k \in DOMAIN col_map :
        /\ k > j
        /\ col_map[k][2] = col_map[j][2]
        /\ ~IsNone(ValueFor(flatten_row(row), col_map[k][1]))

\* the cells of sheet row r hold the values of the input row: every mapped
\* field with a value, in its column, unless the cell is merged or a later
\* field was written over it
WrittenAt(r, row) ==
    \A j \in DOMAIN col_map :
        \A v \in {ValueFor(flatten_row(row), col_map[j][1])} :
            (~IsNone(v) /\ <<r, col_map[j][2]>> \notin ws.merged /\ ~WrittenOver(row, j))
                => CellValue(ws, r, col_map[j][2]) = v

\* no cell of the rows 1..n differs from the template
UnchangedUpTo(n) ==
    /\ ws.block = inbook.sheet.block
    /\ ws.merged = inbook.sheet.merged
    /\ \A p \in DOMAIN ws.cells \cup DOMAIN inbook.sheet.cells :
          p[1] <= n => CellValue(ws, p[1], p[2]) = CellValue(inbook.sheet, p[1], p[2])

\* the input rows go to the rows below k full rows, and the rows above stay
InsertedBelow(k) ==
    /\ \A j \in 1..Len(Rows) : WrittenAt(header_row + k + j, Rows[j])
    /\ UnchangedUpTo(header_row + k)

\* C1 as stated: whenever the data region is k >= 0 full rows followed by an
\* empty row and every input row is valid, the i-th input row is at sheet row
\* header_row + k + i and the rows up to header_row + k are unchanged.
C1_AnyK ==
    WriteDone /\ (\A j \in 1..Len(Rows) : ValidRow(Rows[j])) =>
        \A k \in {FilledRun(inbook.sheet)} :
            RowEmpty(inbook.sheet, header_row + k + 1) => InsertedBelow(k)

\* C1, amended: the same for 0 <= k <= 4999, where the empty row lies within
\* the 5000 rows next_empty_data_row examines.
C1_InsertionPoint ==
    WriteDone /\ (\A j \in 1..Len(Rows) : ValidRow(Rows[j])) =>
        \A k \in {FilledRun(inbook.sheet)} :
            (k < SCAN_ROW_LIMIT /\ RowEmpty(inbook.sheet, header_row + k + 1)) => InsertedBelow(k)

C1_Witness ==
    /\ WriteDone
    /\ inbook.sheet = LongTemplate(SCAN_ROW_LIMIT - 1, TRUE)
    /\ Rows = <<RowA, RowB>>
    /\ CellValue(ws, SCAN_ROW_LIMIT + 1, 1) = VStr(<<"a">>)
    /\ CellValue(ws, SCAN_ROW_LIMIT + 2, 1) = VStr(<<"b">>)

\* C2: once the rows are written, every data cell that held a value in the
\* template still holds that value (the new rows lie below the last
\* pre-existing row with data).
C2_NoDataOverwritten ==
    WriteDone =>
        \A p \in DOMAIN inbook.sheet.cells :
            (/\ p[1] > header_row
             /\ p[2] \in DataCols(col_map)
             /\ ~IsEmptyValue(CellValue(inbook.sheet, p[1], p[2])))
                => CellValue(ws, p[1], p[2]) = CellValue(inbook.sheet, p[1], p[2])

\* the rows written below the template's last row with data
NewRowsBelow(last) == {r \in start_row..(current_row - 1) : r > last}

\* the columns outside the data columns where row `last` holds a formula
FormulaColumns(last) ==
    {c \in 1..inbook.sheet.max_column :
        c \notin DataCols(col_map) /\ IsFormula(CellValue(inbook.sheet, last, c))}

\* C3 as stated: every new row below the last filled row holds the formula of
\* that row in each column outside the data columns, and the source cell is
\* unchanged.
C3_EveryColumn ==
    WriteDone =>
        \A last \in {LastDataRow(inbook.sheet)} :
            last > header_row =>
                \A c \in FormulaColumns(last) :
                    /\ CellValue(ws, last, c) = CellValue(inbook.sheet, last, c)
                    /\ \A r \in NewRowsBelow(last) : CellValue(ws, r, c) = CellValue(inbook.sheet, last, c)

\* C3 for the columns 1..99 only, and for the new rows whose cell in the
\* column was empty and not merged in the template: what the code achieves.
C3_FormulaPreserved ==
    WriteDone =>
        \A last \in {LastDataRow(inbook.sheet)} :
            last > header_row =>
                \A c \in FormulaColumns(last) :
                    /\ CellValue(ws, last, c) = CellValue(inbook.sheet, last, c)
                    /\ \A r \in NewRowsBelow(last) :
                          (/\ c < COPY_MAX_COL
                           /\ IsEmptyValue(CellValue(inbook.sheet, r, c))
                           /\ <<r, c>> \notin inbook.sheet.merged)
                              => CellValue(ws, r, c) = CellValue(inbook.sheet, last, c)

C3_Witness ==
    /\ WriteDone
    /\ inbook.sheet = Template(LayoutShort, <<"full">>, "formula")
    /\ Rows = <<RowA, RowB>>
    /\ CellValue(ws, 2, FormulaCol) = Formula
    /\ CellValue(ws, 3, FormulaCol) = Formula
    /\ CellValue(ws, 4, FormulaCol) = Formula

\* C4: the copy-down step changes only cells that were empty (None or ""),
\* and no cell of the source row.
C4_CopyOnlyIntoEmpty ==
    [][CopyFormulasStep =>
        \A p \in DOMAIN ws.cells \cup DOMAIN ws'.cells :
            CellValue(ws', p[1], p[2]) # CellValue(ws, p[1], p[2])
                => (IsEmptyValue(CellValue(ws, p[1], p[2])) /\ p[1] # last_filled)]_vars

C4_Witness ==
    /\ pc = "cells"
    /\ inbook.sheet = Template(LayoutShort, <<"full">>, "formula_above_text")
    /\ current_row = 3
    /\ CellValue(ws, 3, FormulaCol) = OtherText
    /\ CellValue(ws, 3, FormulaCol + 1) = Formula

\* C5: norm is idempotent on every text.
C5_NormIdempotent == norm(norm(text)) = norm(text)

\* C6: a cell holding any spelling of a recognised header (other letter case,
\* longer whitespace runs, surrounding whitespace, another dash) is mapped by
\* locate_columns to the header's field key, in the cell's column.
C6_SpellingInsensitive ==
    canon # 0 => locate_columns(HeaderSheet(text, canon)) = << <<HeaderTexts[canon][2], canon>> >>

C6_Witness ==
    /\ canon = 5
    /\ text = <<"m","a","k","e","/"," "," ","r","e","u","s","e">>
    /\ locate_columns(HeaderSheet(text, canon)) = << <<"make_or_reuse", 5>> >>

\* C7: the workbook is loaded, written or saved only when the payload is a
\* JSON object whose 'rows' is an array; with any other payload the run is
\* in, or on its way to, the raise.
C7_BadPayloadAborts ==
    /\ (inbook # Unloaded \/ ws # Unloaded \/ saved)
          => (IsDict(data) /\ HasKey(data, "rows") /\ IsList(GetKey(data, "rows", VNone)))
    /\ error \in {"ValueError: Could not read JSON file", "ValueError: Invalid JSON format",
                  "ValueError: JSON must contain a 'rows' key", "ValueError: JSON 'rows' must be an array"}
          => (pc \in {"raised", "exit1"} /\ inbook = Unloaded /\ ws = Unloaded /\ ~saved)

C7_Witness ==
    /\ pc = "exit1"
    /\ error = "ValueError: JSON 'rows' must be an array"
    /\ data = VDict(<< <<"rows", VDict(<<>>)>> >>)
    /\ inbook = Unloaded

\* C8: a workbook whose sheet has no recognised header is never saved.
C8_NoColumnsIsFatal == saved => locate_columns(inbook.sheet) # <<>>

\* the sheet row of input row j: the rows before it that were written
\* without raising each took one row
RowOf(j) == start_row + Cardinality({m \in 1..(j - 1) : ValidRow(Rows[m])})

\* C9: once the loop over the input rows has begun nothing is raised, and when
\* it ends every input row that did not raise is on the sheet with all of its
\* mapped cells (a cell that refuses the write keeps what it held), whatever
\* the other rows were.
C9_BatchContinues ==
    /\ (pc \in {"row", "cells"} \/ WriteDone) => error = "none"
    /\ WriteDone => \A j \in 1..Len(Rows) : ValidRow(Rows[j]) => WrittenAt(RowOf(j), Rows[j])

C9_Witness ==
    /\ WriteDone
    /\ inbook.sheet = Template(LayoutShort, <<"full">>, "formula_merged")
    /\ Rows = <<RowHuge, RowA>>
    /\ IsNone(CellValue(ws, 3, 1))
    /\ CellValue(ws, 3, 2) = VFloat(20)

SuccessLine == [line |-> "Successfully wrote", count |-> Len(Rows)]
Printed(l) == \E n \in DOMAIN stdout : stdout[n].line = l

\* C10: a run ends saved with the success line printed, or raised with
\* nothing saved and no success line; the success line is printed only after
\* the save, and no raise is followed by it.
C10_SuccessOrRaise ==
    /\ pc = "done" => (saved /\ error = "none" /\ stdout = <<SuccessLine>>)
    /\ pc \in {"raised", "exit1"} => (~saved /\ error # "none" /\ ~Printed("Successfully wrote"))
    /\ Printed("Successfully wrote") => (saved /\ pc = "done")

C10_Witness ==
    /\ pc = "exit1"
    /\ error = "PermissionError"
    /\ ws # inbook.sheet
    /\ stdout = <<[line |-> "Error", count |-> 0]>>

(***************************************************************************)
(* Properties of safe_excel_value and safe_numeric_convert, on the last    *)
(* call made.                                                              *)
(***************************************************************************)
Sanitised == call.fn = "safe_excel_value"
Converted == call.fn = "safe_numeric_convert"

HasControl(s) == \E ix \in DOMAIN s : IsControl(s[ix])
AllStrings(v) == \A ix \in DOMAIN v.list : IsStr(v.list[ix])
IsFiniteNumber(v) == IsBool(v) \/ IsInt(v) \/ (IsFloat(v) /\ ~IsNonFinite(v))

\* the classes of C11 that the claim and its amendment state alike: a
\* non-finite float gives None, a long string without control characters
\* gives its first 32,767 characters, numbers and booleans come back as given
ScalarClasses ==
    /\ IsNonFinite(call.arg) => call.out = VNone
    /\ (IsStr(call.arg) /\ Len(call.arg.str) > MAX_CELL_CHARS /\ ~HasControl(call.arg.str))
          => call.out = VStr(SubSeq(call.arg.str, 1, MAX_CELL_CHARS))
    /\ IsFiniteNumber(call.arg) => call.out = call.arg

\* C11 as stated: besides the scalar classes, a list of strings gives the
\* strings joined with " | ", and a list with another element gives its JSON
\* serialization.
C11_ListsVerbatim ==
    Sanitised =>
        /\ ScalarClasses
        /\ (IsList(call.arg) /\ AllStrings(call.arg)) => call.out = VStr(JoinBar(call.arg.list))
        /\ (IsList(call.arg) /\ ~AllStrings(call.arg))
              => (~JsonFails(call.arg) /\ call.out = VStr(JsonDumps(call.arg)))

\* C11, amended: the list classes hold when the joined text, or the JSON
\* text of a list whose elements all serialize, has no control character that
\* the string rule removes and at most 32,767 characters.
C11_SanitiserClasses ==
    Sanitised =>
        /\ ScalarClasses
        /\ (IsList(call.arg) /\ AllStrings(call.arg))
              => \A joined \in {JoinBar(call.arg.list)} :
                    (~HasControl(joined) /\ Len(joined) <= MAX_CELL_CHARS) => call.out = VStr(joined)
        /\ (IsList(call.arg) /\ ~AllStrings(call.arg) /\ ~JsonFails(call.arg))
              => \A dumped \in {JsonDumps(call.arg)} :
                    (~HasControl(dumped) /\ Len(dumped) <= MAX_CELL_CHARS) => call.out = VStr(dumped)

C11_Witness ==
    /\ Sanitised
    /\ call.arg = VList(<<VInt(1), VStr(<<"a">>)>>)
    /\ call.out = VStr(<<"[", "1", ",", " ", "\"", "a", "\"", "]">>)

\* C12: safe_excel_value is total: whatever the input, lists and mappings
\* whose JSON serialization or string conversion fails included, the call
\* returns without raising and the result is None, a boolean, an integer, a
\* float or a string.
C12_SanitiserTotal ==
    Sanitised =>
        /\ ~IsRaised(call.out)
        /\ IsNone(call.out) \/ IsBool(call.out) \/ IsInt(call.out) \/ IsFloat(call.out) \/ IsStr(call.out)

\* the number a finite model value stands for, in tenths
Tenths(v) ==
    CASE IsBool(v) -> (IF v.bool THEN 10 ELSE 0)
      [] "int" \in DOMAIN v -> 10 * v.int
      [] "float" \in DOMAIN v -> v.float

IsBlank(s) == \A ix \in DOMAIN s : IsSpace(s[ix])

\* C13: safe_numeric_convert gives None for None and ""; for an int or a
\* finite float the same number as a float; None for NaN and the infinities;
\* for a string the float parsed from the trimmed text when that is finite
\* ("12.5" gives 12.5) and None otherwise ("abc", "nan", "inf", blanks); None
\* for any other type.
C13_NumericConvert ==
    Converted =>
        /\ (IsNone(call.arg) \/ call.arg = VStr(<<>>)) => call.out = VNone
        /\ IsNonFinite(call.arg) => call.out = VNone
        /\ ((IsInt(call.arg) \/ IsFloat(call.arg)) /\ ~IsNonFinite(call.arg))
              => /\ ~IsRaised(call.out)
                 /\ "float" \in DOMAIN call.out
                 /\ "hugeint" \notin DOMAIN call.arg => call.out.float = Tenths(call.arg)
        /\ call.arg = VStr(<<"1", "2", ".", "5">>) => call.out = VFloat(125)
        /\ call.arg = VStr(<<" ", "1", "2", ".", "5", "\n">>) => call.out = VFloat(125)
        /\ call.arg \in {VStr(<<"a", "b", "c">>), VStr(<<"n", "a", "n">>), VStr(<<"I", "n", "f">>)}
              => call.out = VNone
        /\ (IsStr(call.arg) /\ IsBlank(call.arg.str)) => call.out = VNone
        /\ IsStr(call.arg) => (call.out = VNone \/ ("float" \in DOMAIN call.out /\ ~IsRaised(call.out)))
        /\ (IsList(call.arg) \/ IsDict(call.arg) \/ IsObject(call.arg)) => call.out = VNone

(***************************************************************************)
(* Properties of _compute_row_id, on the ids last computed.                *)
(***************************************************************************)
\* C14: two rows whose platform, module, component and feature differ only
\* in letter case and in leading and trailing whitespace get the same id.
C14_RowIdStable == row_ids # NoIds => row_ids[1] = row_ids[2]

(***************************************************************************)
(* Properties of the HTTP layer's generations.                             *)
(***************************************************************************)
Running == {r \in requests : r.at = "communicate"}

\* C15: any two generations whose subprocesses overlap were given distinct
\* --outbook paths.
C15_DistinctOutbooks ==
    \A r1 \in Running, r2 \in Running : r1 # r2 => r1.outbook # r2.outbook

(***************************************************************************)
(* Properties of the two row scans, in the state write_rows_to_estimation  *)
(* is in when both have returned (line 298) and no row is written yet.     *)
(***************************************************************************)
Planned == pc = "row" /\ i = 1

\* the last row of the insertion scan: header_row + 5000 or the sheet height
\* + 100, whichever is smaller
LastScanned == Min(header_row + SCAN_ROW_LIMIT, inbook.sheet.max_row + SCAN_ROW_SLACK)

\* the rows of the insertion scan with no value in any data column
EmptyScanned == {r \in (header_row + 1)..LastScanned : RowEmpty(inbook.sheet, r)}

\* C16 as stated: the insertion row is the first row of the scan that is
\* empty in every data column, and one row past the last scanned row when
\* the scan has no such row.
C16_PastLastScanned ==
    Planned =>
        \A empty \in {EmptyScanned} :
            start_row = IF empty # {} THEN MinOf(empty) ELSE LastScanned + 1

\* C16, amended: ... and one row past the sheet's last row when the scan has
\* no such row.
C16_InsertionRow ==
    Planned =>
        \A empty \in {EmptyScanned} :
            start_row = IF empty # {} THEN MinOf(empty) ELSE inbook.sheet.max_row + 1

C16_Witness ==
    /\ Planned
    /\ inbook.sheet = LongTemplate(SCAN_ROW_LIMIT, TRUE)
    /\ header_row = 1
    /\ EmptyScanned = {}
    /\ start_row = SCAN_ROW_LIMIT + 5

\* C17: the last-filled row is the last row of the insertion scan's range
\* with a value in some data column (the header row when there is none), so
\* that no row the insertion scan finds filled lies below it.
C17_SameRange ==
    Planned =>
        /\ last_filled = MaxOf({header_row} \cup
                               {r \in (header_row + 1)..LastScanned : ~RowEmpty(inbook.sheet, r)})
        /\ \A r \in (header_row + 1)..LastScanned : ~RowEmpty(inbook.sheet, r) => r <= last_filled

(***************************************************************************)
(* Properties of find_header_row, on the header row of the plan.           *)
(***************************************************************************)
\* the normalised texts of the cells of row r
RowTexts(sheet, r) ==
    {CellKey(CellValue(sheet, p[1], p[2])) : p \in {q \in ValuedCells(sheet, r, sheet.max_column) : q[1] = r}}

\* the rows 1..n that hold a value other than None and "" in their first
\* 20 columns
NonEmptyRows(sheet, n) ==
    {p[1] : p \in {q \in ValuedCells(sheet, n, FALLBACK_COLS) : ~IsEmptyValue(CellValue(sheet, q[1], q[2]))}}

\* C18: the header row is the first of the rows 1..min(30, height) whose
\* normalised texts include "module", "features" and "platform (desktop /
\* web / mobile)"; failing that the first of the rows 1..10 with a non-empty
\* cell in its first 20 columns; failing that row 1.
C18_HeaderRow ==
    Planned =>
        \A hits \in {{r \in 1..Min(HEADER_SEARCH_ROWS, inbook.sheet.max_row) :
                        HeaderTargets \subseteq RowTexts(inbook.sheet, r)}},
           fallback \in {NonEmptyRows(inbook.sheet, FALLBACK_ROWS)} :
            header_row = IF hits # {} THEN MinOf(hits)
                         ELSE IF fallback # {} THEN MinOf(fallback)
                         ELSE 1

(***************************************************************************)
(* Properties of the steps that fill one sheet row.                        *)
(***************************************************************************)
\* C19: when the formulas are copied down, every column c of
\* 1..min(sheet width, 100) whose destination cell is empty (and not part of
\* a merged range) and whose cell in the last filled row holds a formula
\* receives that formula string.
C19_CopyUpTo100 ==
    [][(CopyFormulasStep /\ CopyCondition(current_row, last_filled, header_row)) =>
        \A c \in 1..Min(ws.max_column, COPY_MAX_COL) :
            (/\ IsEmptyValue(CellValue(ws, current_row, c))
             /\ <<current_row, c>> \notin ws.merged
             /\ IsFormula(CellValue(ws, last_filled, c)))
                => CellValue(ws', current_row, c) = CellValue(ws, last_filled, c)]_vars

\* C20: writing a row leaves each cell of a numeric field's column as it was
\* or puts a finite number there, never a text.
C20_NumericColumns ==
    [][WriteCellsStep =>
        \A j \in DOMAIN col_map :
            col_map[j][1] \in JSON_NUMERIC_KEYS =>
                \A written \in {CellValue(ws', current_row, col_map[j][2])} :
                    \/ written = CellValue(ws, current_row, col_map[j][2])
                    \/ IsFiniteNumber(written) /\ ~IsBool(written)]_vars

(***************************************************************************)
(* Properties of flatten_row, on the last call made.                       *)
(***************************************************************************)
Flattened == call.fn = "flatten_row"

\* C21: for every row record, flatten_row emits the eight hours.<bucket>
\* keys, none of them with a null value, and 0 for a bucket without a value
\* (hours absent or not a mapping, the bucket missing or null).
C21_HoursNeverNull ==
    Flattened =>
        \A n \in DOMAIN HourFields :
            /\ HasKey(call.out, HourKey(HourFields[n]))
            /\ ~IsNone(GetKey(call.out, HourKey(HourFields[n]), VNone))
            /\ \A hours \in {GetKey(call.arg, "hours", VNone)} :
                  (~IsDict(hours) \/ IsNone(GetKey(hours, HourFields[n], VNone)))
                      => GetKey(call.out, HourKey(HourFields[n]), VNone) = VInt(0)

\* C26: a string returned by safe_excel_value has at most 32,767 characters
\* and no control character of the removed ranges, on every path.
C26_CleanStrings ==
    (Sanitised /\ IsStr(call.out)) =>
        /\ Len(call.out.str) <= MAX_CELL_CHARS
        /\ ~HasControl(call.out.str)

(***************************************************************************)
(* Properties of the column map of the plan.                               *)
(***************************************************************************)
\* <<normalised text, cell>> of the cells with a value in the rows
\* 1..min(20, height) and the columns 1..min(200, width)
VisitedCells(sheet) ==
    {<<CellKey(CellValue(sheet, p[1], p[2])), p>> :
        p \in ValuedCells(sheet, Min(SEARCH_ROWS, sheet.max_row), Min(SCAN_MAX_COL, sheet.max_column))}

\* cell p is visited before cell q: an earlier row, or the same row and an
\* earlier column
VisitedBefore(p, q) == p[1] < q[1] \/ (p[1] = q[1] /\ p[2] < q[2])

\* C22: the column recorded for a header text is that of the first cell, in
\* row-major order over the scanned rows and columns, whose normalised text
\* it is; no later cell with the same text changes it.
C22_FirstMatchWins ==
    Planned =>
        \A visited \in {VisitedCells(inbook.sheet)} :
            /\ \A e \in scan_header_columns(inbook.sheet) :
                \E d \in visited :
                    /\ d[1] = e[1] /\ d[2][2] = e[2]
                    /\ \A o \in visited : o[1] = d[1] => ~VisitedBefore(o[2], d[2])
            /\ \A d \in visited : d[1] # <<>> => \E e \in scan_header_columns(inbook.sheet) : e[1] = d[1]
            /\ \A j \in DOMAIN col_map :
                \E d \in visited :
                    /\ <<d[1], col_map[j][1]>> \in Range(HEADER_TO_JSON)
                    /\ d[2][2] = col_map[j][2]
                    /\ \A o \in visited : o[1] = d[1] => ~VisitedBefore(o[2], d[2])

C22_Witness ==
    /\ Planned
    /\ inbook.sheet = RepeatedHeaderTemplate
    /\ col_map = << <<"module", 2>>, <<"hours.backend_logic", 3>> >>

\* the header texts that select the column of a field key
TextsOf(json_key) == {h[1] : h \in {g \in Range(HEADER_TO_JSON) : g[2] = json_key}}

\* C24: every column of the column map has a header text of its field key
\* in the header row, so the data rows lie beneath the headers that selected
\* their columns.
C24_HeaderRowAgrees ==
    Planned =>
        \A j \in DOMAIN col_map :
            /\ CellValue(inbook.sheet, header_row, col_map[j][2]) # VNone
            /\ CellKey(CellValue(inbook.sheet, header_row, col_map[j][2])) \in TextsOf(col_map[j][1])

\* C25: no two field keys of the column map have the same column.
C25_Injective ==
    Planned => \A j, k \in DOMAIN col_map : col_map[j][2] = col_map[k][2] => j = k

(***************************************************************************)
(* Properties of the write loop and of the success message.                *)
(***************************************************************************)
\* the input row is processed without an exception
Processed(row) ==
    /\ ~IsRaised(flatten_row(row))
    /\ WriteCells(ws, current_row, flatten_row(row), col_map).ok

\* the input rows among the first n that were processed without an exception
ProcessedUpTo(n) == {k \in 1..n : Processed(Rows[k])}

\* between two input rows, and after the last one
BetweenRows == pc \in {"row", "save", "print", "done"} /\ col_map # <<>>

\* C23: the cursor is start_row plus the number of input rows processed
\* without an exception, and the sheet row under the cursor holds in the
\* mapped columns what the template held there: a skipped row leaves no cell.
C23_SkippedRowsLeaveNothing ==
    BetweenRows =>
        /\ current_row = start_row + Cardinality(ProcessedUpTo(i - 1))
        /\ \A j \in DOMAIN col_map :
            CellValue(ws, current_row, col_map[j][2]) = CellValue(inbook.sheet, current_row, col_map[j][2])

\* C27: the count of the success line is the number of input rows that were
\* written, i.e. processed without an exception.
C27_CountIsWritten ==
    pc = "done" =>
        \E n \in DOMAIN stdout :
            /\ stdout[n].line = "Successfully wrote"
            /\ stdout[n].count = Cardinality(ProcessedUpTo(Len(Rows)))

(***************************************************************************)
(* Properties of the responses of the HTTP layer.                          *)
(***************************************************************************)
Responded(fn) == response # NoResponse /\ response.fn = fn

\* C30: process_estimation_json responds with a spreadsheet file only when
\* the script exited with 0 and wrote the output workbook, and the file is
\* that workbook; a failed script gives an error, never the template.
C30_FileOnlyOnSuccess ==
    Responded("process_estimation_json") =>
        /\ response.kind = "file" =>
            /\ ~response.outcome.raised
            /\ response.outcome.returncode = 0
            /\ response.outcome.outbook_exists
            /\ response.body = "outbook"
        /\ (response.outcome.raised \/ response.outcome.returncode # 0 \/ ~response.outcome.outbook_exists)
            => response.kind = "error"

(***************************************************************************)
(* Properties of the estimations service.                                  *)
(***************************************************************************)
VersionNumbers == [n \in DOMAIN estimation.versions |-> estimation.versions[n].version_number]

\* C28: no two entries of versions have the same version_number, and every
\* entry's number is greater than the numbers of the entries before it.
C28_VersionNumbersUnique ==
    \A m, n \in DOMAIN VersionNumbers : m < n => VersionNumbers[m] < VersionNumbers[n]

\* C29: when every background task has ended, the stored file was generated
\* from the envelope stored last.
C29_StoredFileFresh ==
    (tasks = {} /\ estimation.envelope_data \in Envelopes) => upload = estimation.envelope_data
====
